---- MODULE Spec2Model ----
(***************************************************************************)
(* Model of the submission quality validator                               *)
(* (src/src/validators/quality_validator.py): the rule contract, the       *)
(* required-field and consistency evaluators, the scorer and the           *)
(* enrichment advisor, with the arithmetic of the scores done in IEEE-754  *)
(* double precision as Python does it.                                     *)
(***************************************************************************)
EXTENDS Integers, Sequences, FiniteSets, TLC

(***************************************************************************)
(* Part 1.  Double-precision arithmetic.                                   *)
(*                                                                         *)
(* The scores are Python floats.  A double is modelled exactly, as         *)
(* [m, e] with value m * 2^e, where m is a natural number of at most       *)
(* MantissaBits bits held as a little-endian sequence of limbs in base     *)
(* LimbBase (TLC's integers are 32 bits wide).  Every operation computes   *)
(* the exact result and rounds it to nearest, ties to even, as the         *)
(* hardware does.                                                          *)
(***************************************************************************)

\* Bits per limb and the limb base 2^LimbBits.
LimbBits == 15
LimbBase == 32768
\* Significand width of a double.
MantissaBits == 53
\* Fraction bits kept by the long division of FDiv before rounding.
DivBits == 64

RECURSIVE Pow2(_)
Pow2(n) == IF n = 0 THEN 1 ELSE 2 * Pow2(n - 1)

RECURSIVE BNorm(_)
\* A limb sequence without its leading (most significant) zero limbs.
BNorm(a) ==
    IF a = <<>> THEN <<>>
    ELSE IF a[Len(a)] = 0 THEN BNorm(SubSeq(a, 1, Len(a) - 1))
    ELSE a

RECURSIVE BFromInt(_)
BFromInt(n) ==
    IF n = 0 THEN <<>> ELSE <<n % LimbBase>> \o BFromInt(n \div LimbBase)

RECURSIVE BToInt(_)
\* Only used on values known to be small.
BToInt(a) ==
    IF a = <<>> THEN 0 ELSE a[1] + LimbBase * BToInt(Tail(a))

RECURSIVE BAddC(_, _, _)
BAddC(a, b, c) ==
    IF a = <<>> /\ b = <<>> THEN (IF c = 0 THEN <<>> ELSE <<c>>)
    ELSE LET x == IF a = <<>> THEN 0 ELSE a[1]
             y == IF b = <<>> THEN 0 ELSE b[1]
             s == x + y + c
         IN  <<s % LimbBase>> \o
             BAddC(IF a = <<>> THEN <<>> ELSE Tail(a),
                   IF b = <<>> THEN <<>> ELSE Tail(b),
                   s \div LimbBase)

BAdd(a, b) == BAddC(a, b, 0)

RECURSIVE BMulSmallC(_, _, _)
BMulSmallC(a, k, c) ==
    IF a = <<>> THEN (IF c = 0 THEN <<>> ELSE <<c>>)
    ELSE LET p == a[1] * k + c
         IN  <<p % LimbBase>> \o BMulSmallC(Tail(a), k, p \div LimbBase)

\* a * k for 0 <= k < LimbBase.
BMulSmall(a, k) == BNorm(BMulSmallC(a, k, 0))

RECURSIVE BMul(_, _)
BMul(a, b) ==
    IF b = <<>> THEN <<>>
    ELSE BNorm(BAdd(BMulSmall(a, b[1]),
                    LET r == BMul(a, Tail(b))
                    IN  IF r = <<>> THEN <<>> ELSE <<0>> \o r))

RECURSIVE BDivSmallR(_, _, _)
\* Long division from the most significant limb down; r is the running
\* remainder.  The result is [q |-> quotient limbs, r |-> remainder].
BDivSmallR(a, d, r) ==
    IF a = <<>> THEN [q |-> <<>>, r |-> r]
    ELSE LET cur  == r * LimbBase + a[Len(a)]
             rest == BDivSmallR(SubSeq(a, 1, Len(a) - 1), d, cur % d)
         IN  [q |-> rest.q \o <<cur \div d>>, r |-> rest.r]

\* a divided by d, 0 < d <= LimbBase.
BDivSmall(a, d) ==
    LET res == BDivSmallR(a, d, 0) IN [q |-> BNorm(res.q), r |-> res.r]

RECURSIVE Zeros(_)
Zeros(n) == IF n = 0 THEN <<>> ELSE <<0>> \o Zeros(n - 1)

\* a * 2^n.
BShl(a, n) ==
    IF a = <<>> THEN <<>>
    ELSE Zeros(n \div LimbBits) \o BMulSmall(a, Pow2(n % LimbBits))

\* floor(a / 2^n).
BShr(a, n) ==
    LET drop == n \div LimbBits
    IN  IF drop >= Len(a) THEN <<>>
        ELSE BDivSmall(SubSeq(a, drop + 1, Len(a)), Pow2(n % LimbBits)).q

\* Bit i (from 0) of a.
BBit(a, i) ==
    LET k == i \div LimbBits + 1
    IN  IF k > Len(a) THEN 0 ELSE (a[k] \div Pow2(i % LimbBits)) % 2

\* TRUE iff the n lowest bits of a are all zero.
BLowZero(a, n) ==
    LET full == n \div LimbBits
    IN  /\ \A k \in 1..full : k > Len(a) \/ a[k] = 0
        /\ full + 1 > Len(a) \/ a[full + 1] % Pow2(n % LimbBits) = 0

RECURSIVE IntBitLen(_)
IntBitLen(n) == IF n = 0 THEN 0 ELSE 1 + IntBitLen(n \div 2)

BBitLen(a) ==
    IF a = <<>> THEN 0 ELSE LimbBits * (Len(a) - 1) + IntBitLen(a[Len(a)])

BIsOdd(a) == a # <<>> /\ a[1] % 2 = 1

\* floor(a / 2^n) rounded to nearest, ties to even, on the bits shifted out.
BShrRound(a, n) ==
    IF n = 0 THEN a
    ELSE LET q  == BShr(a, n)
             up == /\ BBit(a, n - 1) = 1
                   /\ (~BLowZero(a, n - 1) \/ BIsOdd(q))
         IN  IF up THEN BAdd(q, <<1>>) ELSE q

FZero == [m |-> <<>>, e |-> 0]

\* The double nearest to n * 2^e (n a limb sequence), ties to even.
FRound(n, e) ==
    LET bl == BBitLen(n)
    IN  IF bl = 0 THEN FZero
        ELSE IF bl <= MantissaBits
             THEN [m |-> BShl(n, MantissaBits - bl), e |-> e - (MantissaBits - bl)]
        ELSE LET sh == bl - MantissaBits
                 q  == BShrRound(n, sh)
             IN  IF BBitLen(q) > MantissaBits
                 THEN [m |-> BShr(q, 1), e |-> e + sh + 1]
                 ELSE [m |-> q, e |-> e + sh]

\* float(n) for a small natural number n.
FFromInt(n) == FRound(BFromInt(n), 0)

\* The Python quotient a / b of two small naturals, b > 0: the exact
\* quotient correctly rounded.  The long division keeps DivBits fraction
\* bits and a sticky bit for a non-zero remainder.
FDiv(a, b) ==
    LET d == BDivSmall(BShl(BFromInt(a), DivBits), b)
        n == BAdd(BShl(d.q, 1), IF d.r = 0 THEN <<>> ELSE <<1>>)
    IN  FRound(n, 0 - (DivBits + 1))

FMul(x, y) == FRound(BMul(x.m, y.m), x.e + y.e)

FAdd(x, y) ==
    LET e == IF x.e < y.e THEN x.e ELSE y.e
    IN  FRound(BAdd(BShl(x.m, x.e - e), BShl(y.m, y.e - e)), e)

RECURSIVE BSubB(_, _, _)
\* a - b - c for limb sequences with a >= b + c, before normalisation.
BSubB(a, b, c) ==
    IF a = <<>> THEN <<>>
    ELSE LET y == IF b = <<>> THEN 0 ELSE b[1]
             d == a[1] - y - c
         IN  <<(d + LimbBase) % LimbBase>> \o
             BSubB(Tail(a), IF b = <<>> THEN <<>> ELSE Tail(b),
                   IF d < 0 THEN 1 ELSE 0)

BSub(a, b) == BNorm(BSubB(a, b, 0))

RECURSIVE BLtSameLen(_, _)
\* a < b for limb sequences of the same length.
BLtSameLen(a, b) ==
    IF a = <<>> THEN FALSE
    ELSE IF a[Len(a)] # b[Len(b)] THEN a[Len(a)] < b[Len(b)]
    ELSE BLtSameLen(SubSeq(a, 1, Len(a) - 1), SubSeq(b, 1, Len(b) - 1))

BLt(a, b) ==
    LET x == BNorm(a)
        y == BNorm(b)
    IN  IF Len(x) # Len(y) THEN Len(x) < Len(y) ELSE BLtSameLen(x, y)

\* x < y for two doubles that are not negative.
FLt(x, y) ==
    LET e == IF x.e < y.e THEN x.e ELSE y.e
    IN  BLt(BShl(x.m, x.e - e), BShl(y.m, y.e - e))

\* x - y for doubles with x >= y >= 0.
FSub(x, y) ==
    LET e == IF x.e < y.e THEN x.e ELSE y.e
    IN  FRound(BSub(BShl(x.m, x.e - e), BShl(y.m, y.e - e)), e)

\* max(x, y)
FMax(x, y) == IF FLt(x, y) THEN y ELSE x

\* round(x, 2) for 0 <= x <= 1, given as the number h of hundredths: Python
\* rounds the exact binary value of x to the nearest multiple of 0.01, ties
\* to even, and returns the double nearest to h/100.
Round2(x) ==
    IF x.m = <<>> THEN 0
    ELSE BToInt(BShrRound(BMulSmall(x.m, 100), 0 - x.e))

(***************************************************************************)
(* Part 2.  Values, submission records and the rule contract.              *)
(*                                                                         *)
(* A field value is a tagged record: None, a str (a sequence of one-       *)
(* character strings), an int, or a Decimal.  A Decimal [n, eps] stands    *)
(* for n + eps * 10^-17 with eps in {-1, 0, 1} and n >= 1: eps = 0 is a    *)
(* whole amount, eps = -1 and eps = 1 are the amounts a hair below and     *)
(* above it, which Decimal(text) holds exactly.                            *)
(***************************************************************************)

None == [t |-> "none"]
Str(chars) == [t |-> "str", v |-> chars]
Int_(n) == [t |-> "int", v |-> n]
Dec(n, eps) == [t |-> "dec", n |-> n, eps |-> eps]

IsNone(val) == val.t = "none"

AsciiDigits == {"0", "1", "2", "3", "4", "5", "6", "7", "8", "9"}
\* A decimal digit outside ASCII (ARABIC-INDIC DIGIT THREE): \d matches it.
UnicodeDigits == {"U+0663"}
Whitespace == {" ", "\n"}

RECURSIVE Join(_)
\* The Python string made of the given pieces.
Join(pieces) == IF pieces = <<>> THEN "" ELSE Head(pieces) \o Join(Tail(pieces))

RECURSIVE IntDigits(_)
IntDigits(n) ==
    IF n < 10 THEN <<ToString(n)>> ELSE IntDigits(n \div 10) \o <<ToString(n % 10)>>

RECURSIVE Repeat(_, _)
Repeat(c, n) == IF n = 0 THEN <<>> ELSE <<c>> \o Repeat(c, n - 1)

\* Digits after the point of a Decimal with eps # 0.
DecFracDigits == 17

\* str(value), as a sequence of characters.
StrChars(val) ==
    CASE val.t = "none" -> <<"N", "o", "n", "e">>
      [] val.t = "str"  -> val.v
      [] val.t = "int"  -> IntDigits(val.v)
      [] val.t = "dec"  ->
            IF val.eps = 0 THEN IntDigits(val.n)
            ELSE IF val.eps = 1
                 THEN IntDigits(val.n) \o <<".">> \o Repeat("0", DecFracDigits - 1) \o <<"1">>
            ELSE IntDigits(val.n - 1) \o <<".">> \o Repeat("9", DecFracDigits)

\* str(value), as a string.
StrOf(val) == Join(StrChars(val))

RECURSIVE StripLeft(_)
StripLeft(s) ==
    IF s # <<>> /\ Head(s) \in Whitespace THEN StripLeft(Tail(s)) ELSE s

RECURSIVE StripRight(_)
StripRight(s) ==
    IF s # <<>> /\ s[Len(s)] \in Whitespace
    THEN StripRight(SubSeq(s, 1, Len(s) - 1)) ELSE s

\* The value of a digit character.
DigitOf(c) ==
    IF c = "U+0663" THEN 3 ELSE CHOOSE d \in 0..9 : ToString(d) = c

RECURSIVE DigitsValue(_)
\* The number written by a sequence of digits.
DigitsValue(s) ==
    IF s = <<>> THEN 0
    ELSE 10 * DigitsValue(SubSeq(s, 1, Len(s) - 1)) + DigitOf(s[Len(s)])

\* float(value).  Every number of the model that reaches a comparison is an
\* integer below 2^53, which a double holds exactly, so the double is given
\* by that integer.  A Decimal a hair (10^-17) away from the whole amount
\* n >= 1 is nearer to n than to any other double and converts to n.
\* float(None) and float of a string that is no number raise.
FloatRaises(val) ==
    CASE val.t = "none" -> TRUE
      [] val.t = "str"  ->
            LET s == StripRight(StripLeft(val.v))
            IN  \/ s = <<>>
                \/ \E i \in 1..Len(s) : s[i] \notin AsciiDigits \cup UnicodeDigits
      [] OTHER -> FALSE

FloatOf(val) ==
    CASE val.t = "int" -> val.v
      [] val.t = "dec" -> val.n
      [] val.t = "str" -> DigitsValue(StripRight(StripLeft(val.v)))

\* str(x) of the float float(value): Python prints the whole number and ".0".
FloatStr(val) == Join(IntDigits(FloatOf(val))) \o ".0"

\* The attributes of a submission record that the contract or a predicate
\* names (ACORDSubmission).
FieldNames ==
    {"business_name", "naics_code", "annual_revenue", "employee_count",
     "years_in_business", "business_address", "requested_coverage_types",
     "requested_limits"}

\* field_name.upper()
Upper(field_name) ==
    CASE field_name = "business_name" -> "BUSINESS_NAME"
      [] field_name = "naics_code" -> "NAICS_CODE"
      [] field_name = "annual_revenue" -> "ANNUAL_REVENUE"
      [] field_name = "employee_count" -> "EMPLOYEE_COUNT"
      [] field_name = "years_in_business" -> "YEARS_IN_BUSINESS"
      [] field_name = "business_address" -> "BUSINESS_ADDRESS"
      [] field_name = "requested_coverage_types" -> "REQUESTED_COVERAGE_TYPES"
      [] field_name = "requested_limits" -> "REQUESTED_LIMITS"

\* getattr(submission, field_name, None)
GetAttr(submission, field_name) ==
    IF field_name \in DOMAIN submission THEN submission[field_name] ELSE None

\* An empty dict.
EmptyDict == [k \in {} |-> 0]

\* dict.get(key, default) and  key in dict  on a contract entry.
Has(d, key) == key \in DOMAIN d
Get(d, key, default) == IF key \in DOMAIN d THEN d[key] ELSE default

\* The regular expression of the NAICS rules.
SixDigits == "^\\d{6}$"

\* re.match(pattern, s) is not None, for the patterns that occur: six
\* characters of class \d from the start, then the end of the string; "$"
\* also matches just before a newline that ends the string.
ReMatch(pattern, s) ==
    CASE pattern = SixDigits ->
            /\ Len(s) \in {6, 7}
            /\ \A i \in 1..6 : s[i] \in AsciiDigits \cup UnicodeDigits
            /\ Len(s) = 7 => s[7] = "\n"

Severity == [ERROR |-> "error", WARNING |-> "warning", INFO |-> "info"]

\* ValidationResult(...): the dataclass of one outcome (expected_value and
\* actual_value default to None).
ValidationResult(rule_id, rule_name, passed, severity, error_message, field_name, expected_value, actual_value) ==
    [rule_id |-> rule_id, rule_name |-> rule_name, passed |-> passed,
     severity |-> severity, error_message |-> error_message,
     field_name |-> field_name, expected_value |-> expected_value,
     actual_value |-> actual_value]

\* Python's None where a string is expected (a message, an expected or
\* actual value).
NoneStr == "<None>"

(***************************************************************************)
(* Part 3.  The field rule evaluator (validate_required_fields).           *)
(*                                                                         *)
(* An evaluator returns [raised |-> FALSE, results |-> <<outcomes>>], or   *)
(* [raised |-> TRUE, error |-> <exception>] when the Python code raises.   *)
(***************************************************************************)

Returned(results) == [raised |-> FALSE, results |-> results]
Raised(error) == [raised |-> TRUE, error |-> error]

\* The failing outcome of a required field whose value is None.
MissingOutcome(field_def, field_name) ==
    ValidationResult(
        "REQ-" \o Upper(field_name),
        "Required Field: " \o Get(field_def, "description", field_name),
        FALSE, Severity.ERROR,
        field_name \o " is required but missing",
        field_name, "Not null", "null")

\* The outcome of the pattern check of a present value.
PatternOutcome(field_def, field_name, actual_value) ==
    LET pattern == field_def.pattern
    IN  IF ~ReMatch(pattern, StrChars(actual_value))
        THEN ValidationResult(
                "REQ-" \o Upper(field_name) \o "-PATTERN",
                "Pattern Validation: " \o field_name,
                FALSE, Severity.ERROR,
                field_name \o " does not match required pattern " \o pattern,
                field_name, "Pattern: " \o pattern, StrOf(actual_value))
        ELSE ValidationResult(
                "REQ-" \o Upper(field_name) \o "-PATTERN",
                "Pattern Validation: " \o field_name,
                TRUE, Severity.INFO, NoneStr, field_name, NoneStr, NoneStr)

\* The outcome of the length check of a present value; max_length defaults
\* to float('inf').
LengthOutcome(field_def, field_name, actual_value) ==
    LET actual_len == Len(StrChars(actual_value))
        min_len    == Get(field_def, "min_length", 0)
        bounded    == Has(field_def, "max_length")
        max_str    == IF bounded THEN ToString(field_def.max_length) ELSE "inf"
        interval   == "[" \o ToString(min_len) \o ", " \o max_str \o "]"
    IN  IF actual_len < min_len \/ (bounded /\ actual_len > field_def.max_length)
        THEN ValidationResult(
                "REQ-" \o Upper(field_name) \o "-LENGTH",
                "Length Validation: " \o field_name,
                FALSE, Severity.ERROR,
                field_name \o " length " \o ToString(actual_len)
                    \o " not in range " \o interval,
                field_name, "Length in " \o interval,
                "Length: " \o ToString(actual_len))
        ELSE ValidationResult(
                "REQ-" \o Upper(field_name) \o "-LENGTH",
                "Length Validation: " \o field_name,
                TRUE, Severity.INFO, NoneStr, field_name, NoneStr, NoneStr)

\* The outcome of the range check of a present value that float() accepts.
RangeOutcome(field_def, field_name, actual_value) ==
    LET min_val     == field_def.range[1]
        max_val     == field_def.range[2]
        numeric_val == FloatOf(actual_value)
        interval    == "[" \o ToString(min_val) \o ", " \o ToString(max_val) \o "]"
    IN  IF numeric_val < min_val \/ numeric_val > max_val
        THEN ValidationResult(
                "REQ-" \o Upper(field_name) \o "-RANGE",
                "Range Validation: " \o field_name,
                FALSE, Severity.ERROR,
                field_name \o " value " \o FloatStr(actual_value)
                    \o " not in range " \o interval,
                field_name, interval, FloatStr(actual_value))
        ELSE ValidationResult(
                "REQ-" \o Upper(field_name) \o "-RANGE",
                "Range Validation: " \o field_name,
                TRUE, Severity.INFO, NoneStr, field_name, NoneStr, NoneStr)

\* BasicInfoField without the continue after the outcome of a missing
\* value: the checks of the rule go on, on str(None).
BasicInfoFieldNoContinue(field_def, submission) ==
    LET field_name   == field_def.field
        actual_value == GetAttr(submission, field_name)
    IN  Returned(
            (IF Get(field_def, "nullable", TRUE) = FALSE /\ IsNone(actual_value)
             THEN <<MissingOutcome(field_def, field_name)>>
             ELSE <<>>)
         \o (IF Has(field_def, "pattern")
             THEN <<PatternOutcome(field_def, field_name, actual_value)>>
             ELSE <<>>)
         \o (IF Has(field_def, "min_length") \/ Has(field_def, "max_length")
             THEN <<LengthOutcome(field_def, field_name, actual_value)>>
             ELSE <<>>)
         \o (IF Has(field_def, "range") /\ ~FloatRaises(actual_value)
             THEN <<RangeOutcome(field_def, field_name, actual_value)>>
             ELSE <<>>))

\* One pass of the loop over basic_info: the outcomes appended for one
\* field rule, or the ValueError of float() in the range check.
BasicInfoField(field_def, submission) ==
    LET field_name   == field_def.field
        actual_value == GetAttr(submission, field_name)
    IN  IF Get(field_def, "nullable", TRUE) = FALSE /\ IsNone(actual_value)
        THEN Returned(<<MissingOutcome(field_def, field_name)>>)
        ELSE IF IsNone(actual_value) THEN Returned(<<>>)
        ELSE IF Has(field_def, "range") /\ FloatRaises(actual_value)
             THEN Raised("ValueError")
        ELSE Returned(
                (IF Has(field_def, "pattern")
                 THEN <<PatternOutcome(field_def, field_name, actual_value)>>
                 ELSE <<>>)
             \o (IF Has(field_def, "min_length") \/ Has(field_def, "max_length")
                 THEN <<LengthOutcome(field_def, field_name, actual_value)>>
                 ELSE <<>>)
             \o (IF Has(field_def, "range")
                 THEN <<RangeOutcome(field_def, field_name, actual_value)>>
                 ELSE <<>>))

\* One pass of the loop over coverage_info: the null check only.
CoverageInfoField(field_def, submission) ==
    LET field_name   == field_def.field
        actual_value == GetAttr(submission, field_name)
    IN  IF Get(field_def, "nullable", TRUE) = FALSE /\ IsNone(actual_value)
        THEN MissingOutcome(field_def, field_name)
        ELSE ValidationResult(
                "REQ-" \o Upper(field_name),
                "Required Field: " \o Get(field_def, "description", field_name),
                TRUE, Severity.INFO, NoneStr, field_name, NoneStr, NoneStr)

RECURSIVE BasicInfoLoop(_, _)
BasicInfoLoop(basic_info, submission) ==
    IF basic_info = <<>> THEN Returned(<<>>)
    ELSE LET first == BasicInfoField(Head(basic_info), submission)
         IN  IF first.raised THEN first
             ELSE LET rest == BasicInfoLoop(Tail(basic_info), submission)
                  IN  IF rest.raised THEN rest
                      ELSE Returned(first.results \o rest.results)

RECURSIVE CoverageInfoLoop(_, _)
CoverageInfoLoop(coverage_info, submission) ==
    IF coverage_info = <<>> THEN <<>>
    ELSE <<CoverageInfoField(Head(coverage_info), submission)>>
         \o CoverageInfoLoop(Tail(coverage_info), submission)

\* validate_required_fields(submission) on a validator whose contract is
\* quality_rules: the basic_info rules, then the coverage_info rules; no
\* other category of required_fields is read.
validate_required_fields(quality_rules, submission) ==
    LET required_fields == Get(quality_rules, "required_fields", EmptyDict)
        basic_info      == Get(required_fields, "basic_info", <<>>)
        coverage_info   == Get(required_fields, "coverage_info", <<>>)
        basic           == BasicInfoLoop(basic_info, submission)
    IN  IF basic.raised THEN basic
        ELSE Returned(basic.results \o CoverageInfoLoop(coverage_info, submission))

(***************************************************************************)
(* Part 4.  The consistency rule evaluator (validate_consistency).         *)
(***************************************************************************)

\* submission.<field> raises AttributeError when the record has no such
\* attribute.
AttrMissing(submission, field_name) == field_name \notin DOMAIN submission

\* _check_revenue_employee_consistency(submission), for a record on which
\* it does not raise.
_check_revenue_employee_consistency(submission) ==
    LET revenue   == FloatOf(submission.annual_revenue)
        employees == submission.employee_count.v
    IN  IF employees < 5 THEN revenue < 1000000
        ELSE IF 5 <= employees /\ employees <= 50
             THEN 500000 <= revenue /\ revenue <= 50000000
        ELSE IF employees > 100 THEN revenue > 5000000
        ELSE TRUE

\* _check_years_revenue_consistency(submission), for a record on which it
\* does not raise.
_check_years_revenue_consistency(submission) ==
    IF submission.years_in_business.v < 2
    THEN FloatOf(submission.annual_revenue) < 5000000
    ELSE TRUE

\* _check_naics_validity that asks for six characters 0-9 and nothing else.
_check_naics_validity_strict(submission) ==
    /\ Len(submission.naics_code.v) = 6
    /\ \A i \in 1..6 : submission.naics_code.v[i] \in AsciiDigits

\* _check_naics_validity(submission), for a record on which it does not
\* raise.
_check_naics_validity(submission) ==
    ReMatch(SixDigits, submission.naics_code.v)

\* The exception, if any, that one pass of the loop of validate_consistency
\* raises: float(None), None < 5, re.match on None (TypeError), or reading
\* an attribute the record does not have (AttributeError).  "" when the
\* pass completes.
CheckError(rule_id, submission) ==
    CASE rule_id = "CONS-001" ->
            IF AttrMissing(submission, "annual_revenue")
               \/ AttrMissing(submission, "employee_count") THEN "AttributeError"
            ELSE IF FloatRaises(submission.annual_revenue)
                    \/ IsNone(submission.employee_count) THEN "TypeError"
            ELSE ""
      [] rule_id = "CONS-002" ->
            IF AttrMissing(submission, "years_in_business")
               \/ AttrMissing(submission, "annual_revenue") THEN "AttributeError"
            ELSE IF IsNone(submission.years_in_business) THEN "TypeError"
            ELSE IF submission.years_in_business.v < 2
                    /\ FloatRaises(submission.annual_revenue) THEN "TypeError"
            ELSE ""
      [] rule_id = "CONS-003" ->
            IF AttrMissing(submission, "naics_code") THEN "AttributeError"
            ELSE IF submission.naics_code.t # "str" THEN "TypeError"
            ELSE ""
      [] OTHER -> ""

RECURSIVE Replace(_, _, _)
\* template.replace(token, text), the template given as its pieces, each
\* placeholder a piece of its own.
Replace(template, token, text) ==
    IF template = <<>> THEN <<>>
    ELSE <<IF Head(template) = token THEN text ELSE Head(template)>>
         \o Replace(Tail(template), token, text)

\* One pass of the loop of validate_consistency on a record on which it
\* does not raise: the outcomes appended for one contract entry (none for
\* a rule_id without a branch).
ConsistencyCheck(check, submission) ==
    LET rule_id      == check.rule_id
        rule_name    == check.name
        severity_str == check.severity
        severity     == IF severity_str = "warning"
                        THEN Severity.WARNING ELSE Severity.ERROR
    IN  CASE rule_id = "CONS-001" ->
                LET passed == _check_revenue_employee_consistency(submission)
                    error_msg ==
                        IF passed THEN NoneStr
                        ELSE Join(Replace(Replace(check.error_message,
                                    "${annual_revenue}", StrOf(submission.annual_revenue)),
                                    "${employee_count}", StrOf(submission.employee_count)))
                IN  <<ValidationResult(rule_id, rule_name, passed, severity,
                        error_msg, "annual_revenue, employee_count",
                        "Revenue proportional to employees",
                        "Revenue: " \o StrOf(submission.annual_revenue)
                            \o ", Employees: " \o StrOf(submission.employee_count))>>
          [] rule_id = "CONS-002" ->
                LET passed == _check_years_revenue_consistency(submission)
                    error_msg ==
                        IF passed THEN NoneStr
                        ELSE Join(Replace(Replace(check.error_message,
                                    "${years_in_business}", StrOf(submission.years_in_business)),
                                    "${annual_revenue}", StrOf(submission.annual_revenue)))
                IN  <<ValidationResult(rule_id, rule_name, passed, severity,
                        error_msg, "years_in_business, annual_revenue",
                        "New businesses (<2 years) should have revenue <$5M",
                        "Years: " \o StrOf(submission.years_in_business)
                            \o ", Revenue: " \o StrOf(submission.annual_revenue))>>
          [] rule_id = "CONS-003" ->
                LET passed == _check_naics_validity(submission)
                    error_msg ==
                        IF passed THEN NoneStr
                        ELSE Join(Replace(check.error_message,
                                    "${naics_code}", StrOf(submission.naics_code)))
                IN  <<ValidationResult(rule_id, rule_name, passed, severity,
                        error_msg, "naics_code", "Valid 6-digit NAICS code",
                        StrOf(submission.naics_code))>>
          [] OTHER -> <<>>

RECURSIVE ConsistencyLoop(_, _)
ConsistencyLoop(consistency_checks, submission) ==
    IF consistency_checks = <<>> THEN Returned(<<>>)
    ELSE LET check == Head(consistency_checks)
             error == CheckError(check.rule_id, submission)
         IN  IF error # "" THEN Raised(error)
             ELSE LET rest == ConsistencyLoop(Tail(consistency_checks), submission)
                  IN  IF rest.raised THEN rest
                      ELSE Returned(ConsistencyCheck(check, submission) \o rest.results)

\* validate_consistency(submission) on a validator whose contract is
\* quality_rules.
validate_consistency(quality_rules, submission) ==
    ConsistencyLoop(Get(quality_rules, "consistency_checks", <<>>), submission)

(***************************************************************************)
(* Part 5.  The enrichment advisor and the scorer (validate_submission).   *)
(***************************************************************************)

\* sum(1 for r in results if r.passed)
CountPassed(results) ==
    Cardinality({i \in 1..Len(results) : results[i].passed})

\* CountFailed without the test on passed: every outcome of the severity.
CountOfSeverity(results, severity) ==
    Cardinality({i \in 1..Len(results) : results[i].severity = severity})

\* sum(1 for r in results if not r.passed and r.severity == severity)
CountFailed(results, severity) ==
    Cardinality({i \in 1..Len(results) :
                    ~results[i].passed /\ results[i].severity = severity})

\* Filter that keeps every field of the source.
FilterNothing(fields, keep) == fields

RECURSIVE Filter(_, _)
\* [f for f in fields if f in keep]
Filter(fields, keep) ==
    IF fields = <<>> THEN <<>>
    ELSE (IF Head(fields) \in keep THEN <<Head(fields)>> ELSE <<>>)
         \o Filter(Tail(fields), keep)

\* The set failed_fields of _get_enrichment_suggestions: the field_name
\* string of every failing outcome, as the outcome carries it.
failed_fields(validation_results) ==
    {validation_results[i].field_name : i \in
        {j \in 1..Len(validation_results) :
            /\ ~validation_results[j].passed
            /\ validation_results[j].field_name \notin {"", NoneStr}}}

RECURSIVE SuggestionLoop(_, _)
SuggestionLoop(enrichment_sources, failed) ==
    IF enrichment_sources = <<>> THEN <<>>
    ELSE LET source          == Head(enrichment_sources)
             relevant_fields == Filter(source.fields_provided, failed)
         IN  (IF relevant_fields # <<>>
              THEN <<[source |-> source.source,
                      api_endpoint |-> source.api_endpoint,
                      fields_provided |-> relevant_fields,
                      cost |-> source.cost,
                      confidence_threshold |-> source.confidence_threshold]>>
              ELSE <<>>)
             \o SuggestionLoop(Tail(enrichment_sources), failed)

\* _get_enrichment_suggestions(validation_results)
_get_enrichment_suggestions(quality_rules, validation_results) ==
    SuggestionLoop(Get(quality_rules, "enrichment_sources", <<>>),
                   failed_fields(validation_results))

\* The float literals of the weighted average and of the vacuous score.
Weight06 == FDiv(3, 5)
Weight04 == FDiv(2, 5)
One == FFromInt(1)

\* PassRatio with the score 0.0 for an empty list.
PassRatioZeroDefault(results) ==
    LET total  == Len(results)
        passed == CountPassed(results)
    IN  IF total > 0 THEN FDiv(passed, total) ELSE FZero

\* passed / total if total > 0 else 1.0, as a double.
PassRatio(results) ==
    LET total  == Len(results)
        passed == CountPassed(results)
    IN  IF total > 0 THEN FDiv(passed, total) ELSE One

\* overall_quality_score with the weight 0.6 on both scores.
overall_quality_score_heavy(completeness_score, consistency_score) ==
    FAdd(FMul(completeness_score, Weight06), FMul(consistency_score, Weight06))

\* overall_quality_score with the two weights exchanged.
overall_quality_score_swapped(completeness_score, consistency_score) ==
    FAdd(FMul(completeness_score, Weight04), FMul(consistency_score, Weight06))

\* (completeness_score * 0.6) + (consistency_score * 0.4), as a double.
overall_quality_score(completeness_score, consistency_score) ==
    FAdd(FMul(completeness_score, Weight06), FMul(consistency_score, Weight04))

\* summary with failed_checks counting the failing errors only.
summary_errors_only(all_results) ==
    LET total_checks  == Len(all_results)
        passed_checks == CountPassed(all_results)
    IN  [total_checks  |-> total_checks,
         passed_checks |-> passed_checks,
         failed_checks |-> CountFailed(all_results, Severity.ERROR),
         errors        |-> CountFailed(all_results, Severity.ERROR),
         warnings      |-> CountFailed(all_results, Severity.WARNING)]

\* The summary dict of a report.
summary(all_results) ==
    LET total_checks  == Len(all_results)
        passed_checks == CountPassed(all_results)
    IN  [total_checks  |-> total_checks,
         passed_checks |-> passed_checks,
         failed_checks |-> total_checks - passed_checks,
         errors        |-> CountFailed(all_results, Severity.ERROR),
         warnings      |-> CountFailed(all_results, Severity.WARNING)]

\* Report with the overall score computed from the two scores after their
\* rounding.
ReportCumulative(quality_rules, required_results, consistency_results) ==
    LET all_results        == required_results \o consistency_results
        completeness_score == PassRatio(required_results)
        consistency_score  == PassRatio(consistency_results)
    IN  [completeness_score     |-> Round2(completeness_score),
         consistency_score      |-> Round2(consistency_score),
         overall_quality_score  |->
            Round2(overall_quality_score(FDiv(Round2(completeness_score), 100),
                                         FDiv(Round2(consistency_score), 100))),
         validation_results     |-> all_results,
         enrichment_suggestions |->
            _get_enrichment_suggestions(quality_rules, all_results),
         summary                |-> summary(all_results)]

\* The report built from the two outcome lists.  A score of the report is
\* the number of hundredths of the rounded float (see Round2).
Report(quality_rules, required_results, consistency_results) ==
    LET all_results        == required_results \o consistency_results
        completeness_score == PassRatio(required_results)
        consistency_score  == PassRatio(consistency_results)
    IN  [completeness_score     |-> Round2(completeness_score),
         consistency_score      |-> Round2(consistency_score),
         overall_quality_score  |->
            Round2(overall_quality_score(completeness_score, consistency_score)),
         validation_results     |-> all_results,
         enrichment_suggestions |->
            _get_enrichment_suggestions(quality_rules, all_results),
         summary                |-> summary(all_results)]

\* validate_submission(submission) on a validator whose contract is
\* quality_rules: [raised |-> FALSE, report |-> the report], or the
\* exception that an evaluator raised.
validate_submission(quality_rules, submission) ==
    LET required == validate_required_fields(quality_rules, submission)
    IN  IF required.raised THEN required
        ELSE LET consistency == validate_consistency(quality_rules, submission)
             IN  IF consistency.raised THEN consistency
                 ELSE [raised |-> FALSE,
                       report |-> Report(quality_rules, required.results,
                                         consistency.results)]

(***************************************************************************)
(* Part 6.  Contracts and records the model is run on.                     *)
(*                                                                         *)
(* The contract is a YAML file outside the validator; the rules below are  *)
(* those the validator, the ACORDSubmission model and the tests name.      *)
(***************************************************************************)

BusinessNameRule ==
    [field |-> "business_name", nullable |-> FALSE, min_length |-> 3,
     max_length |-> 200, description |-> "Legal business name"]
NaicsRule ==
    [field |-> "naics_code", nullable |-> FALSE, pattern |-> SixDigits,
     description |-> "NAICS code"]
RevenueRule ==
    [field |-> "annual_revenue", nullable |-> FALSE,
     range |-> <<10000, 1000000000>>, description |-> "Annual revenue"]
EmployeeRule ==
    [field |-> "employee_count", nullable |-> FALSE, range |-> <<1, 100000>>]
YearsRule ==
    [field |-> "years_in_business", range |-> <<0, 200>>]
AddressRule ==
    [field |-> "business_address", nullable |-> FALSE]
CoverageRule ==
    [field |-> "requested_coverage_types", nullable |-> FALSE,
     description |-> "Coverage types"]
LimitsRule ==
    [field |-> "requested_limits", nullable |-> FALSE]
\* A rule with every kind of constraint on one field.
NaicsFullRule ==
    [field |-> "naics_code", nullable |-> FALSE, pattern |-> SixDigits,
     min_length |-> 6, max_length |-> 6, range |-> <<111110, 999990>>]

NoRequiredFields == [basic_info |-> <<>>, coverage_info |-> <<>>]
StandardRequiredFields ==
    [basic_info |-> <<BusinessNameRule, NaicsRule, RevenueRule, EmployeeRule,
                      YearsRule, AddressRule>>,
     coverage_info |-> <<CoverageRule, LimitsRule>>]
\* Eight outcomes for a record with every value present, and a category
\* under another name.
WideRequiredFields ==
    [basic_info |-> <<BusinessNameRule, NaicsFullRule, RevenueRule, EmployeeRule>>,
     coverage_info |-> <<CoverageRule, LimitsRule>>,
     location_info |-> <<AddressRule>>]

RequiredChoices == {NoRequiredFields, StandardRequiredFields, WideRequiredFields}

Check(rule_id, severity) ==
    [rule_id |-> rule_id,
     name |-> CASE rule_id = "CONS-001" -> "Revenue vs. Employee Consistency"
                [] rule_id = "CONS-002" -> "Years in Business vs. Revenue"
                [] rule_id = "CONS-003" -> "NAICS Code Industry Match"
                [] OTHER -> "Address Format",
     severity |-> severity,
     error_message |->
        CASE rule_id = "CONS-001" ->
                <<"Revenue $", "${annual_revenue}", " inconsistent with ",
                  "${employee_count}", " employees">>
          [] rule_id = "CONS-002" ->
                <<"Business of ", "${years_in_business}", " years with revenue $",
                  "${annual_revenue}">>
          [] rule_id = "CONS-003" -> <<"Invalid NAICS code ", "${naics_code}">>
          [] OTHER -> <<"Check failed">>]

\* The entries a consistency_checks list is made of; CONS-004 has no
\* branch in validate_consistency.
CheckCatalog ==
    {Check("CONS-001", "warning"), Check("CONS-001", "info"),
     Check("CONS-002", "warning"), Check("CONS-002", "error"),
     Check("CONS-003", "error"), Check("CONS-004", "warning")}

\* Longest consistency_checks list of the contracts of Contracts.
MaxChecks == 2

ConsistencyLists == UNION {[1..n -> CheckCatalog] : n \in 0..MaxChecks}

EnrichmentSources ==
    <<[source |-> "dun_bradstreet", api_endpoint |-> "https://api.dnb.com/v1",
       fields_provided |-> <<"annual_revenue", "employee_count", "years_in_business">>,
       cost |-> "0.50", confidence_threshold |-> "0.85"],
      [source |-> "google_places", api_endpoint |-> "https://maps.googleapis.com",
       fields_provided |-> <<"business_address", "business_name">>,
       cost |-> "0.02", confidence_threshold |-> "0.80"],
      [source |-> "naics_lookup", api_endpoint |-> "https://api.census.gov",
       fields_provided |-> <<"naics_code">>,
       cost |-> "0.00", confidence_threshold |-> "0.90"]>>

Contract(required_fields, consistency_checks) ==
    [required_fields |-> required_fields,
     consistency_checks |-> consistency_checks,
     enrichment_sources |-> EnrichmentSources]

Contracts == {Contract(rf, cc) : rf \in RequiredChoices, cc \in ConsistencyLists}

\* The contract of the tests: CONS-001 and CONS-002 are warnings.
StandardContract ==
    Contract(StandardRequiredFields,
             <<Check("CONS-001", "warning"), Check("CONS-002", "warning"),
               Check("CONS-003", "error")>>)

\* The contract of the tests with an entry for CONS-004 among the others.
ExtendedContract ==
    Contract(StandardRequiredFields,
             <<Check("CONS-001", "warning"), Check("CONS-004", "warning"),
               Check("CONS-002", "warning"), Check("CONS-003", "error")>>)

\* Contracts whose consistency_checks list repeats two entries, up to
\* MaxRepeat times each.
MaxRepeat == 5

RepeatedLists ==
    {Repeat(a, i) \o Repeat(b, j) :
        a \in {Check("CONS-003", "error")},
        b \in {Check("CONS-001", "warning"), Check("CONS-002", "warning")},
        i \in 0..MaxRepeat, j \in 0..MaxRepeat}

RepeatedContracts == {Contract(WideRequiredFields, cc) : cc \in RepeatedLists}

\* A submission record: the value of every attribute.
Record(business_name, naics_code, annual_revenue, employee_count, years_in_business, business_address, requested_coverage_types, requested_limits) ==
    [business_name |-> business_name, naics_code |-> naics_code,
     annual_revenue |-> annual_revenue, employee_count |-> employee_count,
     years_in_business |-> years_in_business,
     business_address |-> business_address,
     requested_coverage_types |-> requested_coverage_types,
     requested_limits |-> requested_limits]

Acme == Str(<<"A", "c", "m", "e">>)
ShortName == Str(<<"A", "B">>)
Naics541511 == Str(<<"5", "4", "1", "5", "1", "1">>)
Naics12345 == Str(<<"1", "2", "3", "4", "5">>)
NaicsLetter == Str(<<"5", "4", "A", "5", "1", "1">>)
NaicsNewline == Str(<<"5", "4", "1", "5", "1", "1", "\n">>)
NaicsUnicode == Str(<<"5", "4", "1", "5", "1", "U+0663">>)
MainSt == Str(<<"1", " ", "M", "a", "i", "n">>)
GeneralLiability == Str(<<"G", "L">>)
OneMillion == Str(<<"$", "1", "M">>)

NaicsValues ==
    {Naics541511, Naics12345, NaicsLetter, NaicsNewline, NaicsUnicode}

\* Revenues around every threshold of the rules: whole amounts and the
\* amounts a hair below and above them.
Thresholds == {10000, 500000, 1000000, 5000000, 50000000, 1000000000}
RevenueValues ==
    {Dec(n + d, 0) : n \in Thresholds, d \in {-1, 0, 1}}
    \cup {Dec(n, eps) : n \in Thresholds, eps \in {-1, 1}}
    \cup {Dec(25000000, 0)}
EmployeeValues == {Int_(n) : n \in {0, 1, 3, 4, 5, 20, 50, 51, 75, 100, 101, 200000}}
YearsValues == {Int_(n) : n \in {0, 1, 2, 5}}

\* A complete, consistent record (that of the compliance tests).
BaseRecord ==
    Record(Acme, Naics541511, Dec(1000000, 0), Int_(20), Int_(5), MainSt,
           GeneralLiability, OneMillion)

\* BaseRecord with the given attributes set to None.
Without(record, fields) ==
    [f \in DOMAIN record |-> IF f \in fields THEN None ELSE record[f]]

\* The records of the runs over Contracts: the complete record; the records
\* with one value missing, with the text values missing, with every value
\* missing; records failing each consistency rule and each field rule.
Submissions ==
    {BaseRecord}
    \cup {Without(BaseRecord, {f}) : f \in FieldNames}
    \cup {Without(BaseRecord, {"business_name", "requested_limits"}),
          Without(BaseRecord, {"business_name", "business_address",
                               "requested_coverage_types", "requested_limits"}),
          Without(BaseRecord, FieldNames)}
    \cup {[BaseRecord EXCEPT !.annual_revenue = Dec(50000000, 0),
                             !.employee_count = Int_(3)],
          [BaseRecord EXCEPT !.annual_revenue = Dec(25000000, 0),
                             !.employee_count = Int_(50),
                             !.years_in_business = Int_(1)],
          [BaseRecord EXCEPT !.annual_revenue = Dec(50000000, 0),
                             !.employee_count = Int_(3),
                             !.years_in_business = Int_(1)],
          [BaseRecord EXCEPT !.business_name = ShortName],
          [BaseRecord EXCEPT !.annual_revenue = Dec(9999, 0),
                             !.employee_count = Int_(0)]}
    \cup {[BaseRecord EXCEPT !.naics_code = v] : v \in NaicsValues}

\* The records of the runs on StandardContract: every revenue with every
\* employee count and with every number of years.
GridSubmissions ==
    {[BaseRecord EXCEPT !.annual_revenue = r, !.employee_count = e] :
        r \in RevenueValues, e \in EmployeeValues}
    \cup {[BaseRecord EXCEPT !.annual_revenue = r, !.years_in_business = y,
                             !.employee_count = e] :
            r \in RevenueValues, y \in YearsValues, e \in {Int_(3), Int_(75)}}
    \cup {[BaseRecord EXCEPT !.naics_code = v] : v \in NaicsValues}

\* The records of the runs over RepeatedContracts.
RepeatedSubmissions ==
    {BaseRecord,
     [BaseRecord EXCEPT !.naics_code = Naics12345],
     [Without(BaseRecord, {"business_name", "requested_coverage_types",
                           "requested_limits"})
        EXCEPT !.naics_code = Naics12345,
               !.annual_revenue = Dec(25000000, 0),
               !.employee_count = Int_(200000)],
     [Without(BaseRecord, {"business_name", "requested_limits"})
        EXCEPT !.annual_revenue = Dec(50000000, 0),
               !.employee_count = Int_(3),
               !.years_in_business = Int_(1)]}

(***************************************************************************)
(* Part 7.  The state machine: one validator, constructed with a contract, *)
(* and a caller that passes it a record, again and again.                  *)
(***************************************************************************)

VARIABLES
    quality_rules,    \* self.quality_rules of the validator
    submission,       \* the caller's record
    calls,            \* validate_submission calls made so far
    result,           \* what the last call on submission returned or raised
    previous,         \* what the call on submission before that one did
    warnings_logged   \* the warnings written to the log so far

\* A ContractLoader and the threads calling load_contract (Part 11).
VARIABLES
    _cache,           \* self._cache of the loader: contract name -> contract
    file_reads,       \* times each contract file has been opened and parsed
    callers           \* the load_contract call of each thread

\* A SubmissionStreamProcessor and its process_submission_stream
\* coroutines (Part 12).
VARIABLES
    tasks,              \* one coroutine per submission handed in
    last_decision_log,  \* enrichment_agent.last_decision_log
    running,            \* the coroutine the event loop is running, or 0
    gathered            \* started together by process_batch, or awaited in turn

\* A BatchProcessor, its data directory and its database (Part 13).
VARIABLES
    xml_files,                 \* data_dir.glob("*.xml")
    position,                  \* the file and the statement of the loop
    results,                   \* the results list of process_all_files
    submissions_table,         \* rows of submissions, by primary key
    processing_results_table,  \* rows of processing_results
    batch_summary              \* what process_all_files returned

validator_vars ==
    <<quality_rules, submission, calls, result, previous, warnings_logged>>
loader_vars == <<_cache, file_reads, callers>>
stream_vars == <<tasks, last_decision_log, running, gathered>>
batch_vars ==
    <<xml_files, position, results, submissions_table,
      processing_results_table, batch_summary>>

vars == <<validator_vars, loader_vars, stream_vars, batch_vars>>

\* No loader call, no coroutine and no batch run is under way.
NoLoaderCalls ==
    /\ _cache = <<>>
    /\ file_reads = <<>>
    /\ callers = <<>>

NoStream ==
    /\ tasks = <<>>
    /\ last_decision_log = <<>>
    /\ running = 0
    /\ gathered = FALSE

NoBatch ==
    /\ xml_files = <<>>
    /\ position = <<>>
    /\ results = <<>>
    /\ submissions_table = <<>>
    /\ processing_results_table = <<>>
    /\ batch_summary = <<>>

\* Most validate_submission calls made on the validator.
MaxCalls == 3

NoResult == [status |-> "none"]

\* What a call hands to its caller.
Outcome(ret) ==
    IF ret.raised THEN [status |-> "raised", error |-> ret.error]
    ELSE [status |-> "returned", report |-> ret.report]

\* RulesAfter of a validator that takes each entry off consistency_checks
\* as it evaluates it.
RulesAfterConsuming(rules, record) ==
    [rules EXCEPT !.consistency_checks = <<>>]

\* RulesAfter of a validator that writes relevant_fields back into the
\* catalog entry: each source keeps the fields that failed for the record.
RulesAfterFiltering(rules, record) ==
    LET ret == validate_submission(rules, record)
    IN  IF ret.raised THEN rules
        ELSE [rules EXCEPT !.enrichment_sources =
                [i \in 1..Len(rules.enrichment_sources) |->
                    [rules.enrichment_sources[i] EXCEPT !.fields_provided =
                        Filter(rules.enrichment_sources[i].fields_provided,
                               failed_fields(ret.report.validation_results))]]]

\* self.quality_rules after validate_submission(record): no statement of
\* the validator assigns to the contract or to a dict or list it holds.
RulesAfter(rules, record) == rules

\* The log after validate_submission(record): the validator has no logging
\* call; an entry without a branch is passed over in silence.
LogAfter(log, rules, record) == log

InitWith(contracts, records) ==
    /\ quality_rules \in contracts
    /\ submission \in records
    /\ calls = 0
    /\ result = NoResult
    /\ previous = NoResult
    /\ warnings_logged = <<>>
    /\ NoLoaderCalls
    /\ NoStream
    /\ NoBatch

Init ==
    \/ InitWith(Contracts, Submissions)
    \/ InitWith({StandardContract, ExtendedContract}, GridSubmissions)
    \/ InitWith(RepeatedContracts, RepeatedSubmissions)

\* report = validator.validate_submission(submission)
Validate ==
    /\ calls < MaxCalls
    /\ calls' = calls + 1
    /\ result' = Outcome(validate_submission(quality_rules, submission))
    /\ previous' = result
    /\ quality_rules' = RulesAfter(quality_rules, submission)
    /\ warnings_logged' = LogAfter(warnings_logged, quality_rules, submission)
    /\ UNCHANGED <<submission, loader_vars, stream_vars, batch_vars>>

\* The validator is called on another record; the caller drops the report.
ValidateOther ==
    /\ calls < MaxCalls
    /\ \E other \in RepeatedSubmissions \ {submission} :
        /\ quality_rules' = RulesAfter(quality_rules, other)
        /\ warnings_logged' = LogAfter(warnings_logged, quality_rules, other)
    /\ calls' = calls + 1
    /\ UNCHANGED <<submission, result, previous>>
    /\ UNCHANGED <<loader_vars, stream_vars, batch_vars>>

Next == Validate \/ ValidateOther

Spec == Init /\ [][Next]_vars

(***************************************************************************)
(* Part 8.  The properties.                                                *)
(***************************************************************************)

HasReport == result.status = "returned"

ConsistencyRuleIds == {"CONS-001", "CONS-002", "CONS-003"}
IsConsistencyOutcome(r) == r.rule_id \in ConsistencyRuleIds
IsRequiredOutcome(r) == r.rule_id \notin ConsistencyRuleIds

\* The required-field outcomes and the consistency outcomes of a report.
RequiredOutcomes(report) == SelectSeq(report.validation_results, IsRequiredOutcome)
ConsistencyOutcomes(report) == SelectSeq(report.validation_results, IsConsistencyOutcome)

RECURSIVE RuleIds(_)
RuleIds(entries) ==
    IF entries = <<>> THEN <<>> ELSE <<Head(entries).rule_id>> \o RuleIds(Tail(entries))

ScoreNames == {"completeness_score", "consistency_score", "overall_quality_score"}

\* C1: every report that validate_submission returns has its three scores
\* in [0.0, 1.0] (0 to 100 hundredths), also for a contract without
\* required-field rules or without consistency checks.
C1_ScoresInUnitInterval ==
    HasReport => \A k \in ScoreNames : result.report[k] \in 0..100

\* A report for a contract without consistency checks, with a completeness
\* score strictly between 0 and 1.
C1_Witness ==
    /\ HasReport
    /\ quality_rules.consistency_checks = <<>>
    /\ result.report.consistency_score = 100
    /\ result.report.completeness_score \notin {0, 100}

\* C2: the overall score of a report is round(c * 0.6 + s * 0.4, 2) with c
\* and s the unrounded pass ratios of the required-field outcomes and of the
\* consistency outcomes of the report; the completeness and consistency
\* scores are those ratios rounded once.
C2_OverallFromUnroundedRatios ==
    HasReport =>
        LET c == PassRatio(RequiredOutcomes(result.report))
            s == PassRatio(ConsistencyOutcomes(result.report))
        IN  /\ result.report.completeness_score = Round2(c)
            /\ result.report.consistency_score = Round2(s)
            /\ result.report.overall_quality_score =
                    Round2(FAdd(FMul(c, Weight06), FMul(s, Weight04)))

\* A report whose overall score differs from the weighted average of its
\* two rounded scores, rounded.
C2_Witness ==
    /\ HasReport
    /\ result.report.overall_quality_score #
            Round2(FAdd(FMul(FDiv(result.report.completeness_score, 100), Weight06),
                        FMul(FDiv(result.report.consistency_score, 100), Weight04)))

\* |overall - (completeness * 0.6 + consistency * 0.4)| on the scores of a
\* report taken as two-decimal numbers, in thousandths.
WeightedGap(report) ==
    LET d == 10 * report.overall_quality_score
             - (6 * report.completeness_score + 4 * report.consistency_score)
    IN  IF d < 0 THEN 0 - d ELSE d

\* C3, as claimed: in every report the overall score is strictly less than
\* 0.01 away from completeness_score * 0.6 + consistency_score * 0.4.
C3_GapBelowOneHundredth ==
    HasReport => WeightedGap(result.report) < 10

\* C3, amended: in every report the overall score is at most 0.01 away from
\* completeness_score * 0.6 + consistency_score * 0.4.
C3_GapAtMostOneHundredth ==
    HasReport => WeightedGap(result.report) <= 10

\* A report with 1 of 8 required-field outcomes and 5 of 8 consistency
\* outcomes passing, where the gap is 0.01.
C3_Witness ==
    /\ HasReport
    /\ result.report.completeness_score = 12
    /\ result.report.consistency_score = 62
    /\ WeightedGap(result.report) = 10

\* C4: in every report total_checks = passed_checks + failed_checks, and
\* total_checks is the length of validation_results, passed_checks the
\* number of its passing outcomes.
C4_SummaryCountsAddUp ==
    HasReport =>
        LET sm == result.report.summary
        IN  /\ sm.total_checks = sm.passed_checks + sm.failed_checks
            /\ sm.total_checks = Len(result.report.validation_results)
            /\ sm.total_checks = Len(RequiredOutcomes(result.report))
                                 + Len(ConsistencyOutcomes(result.report))
            /\ sm.passed_checks = CountPassed(result.report.validation_results)

\* A report with failing errors, failing warnings and passing outcomes.
C4_Witness ==
    /\ HasReport
    /\ result.report.summary.errors > 0
    /\ result.report.summary.warnings > 0
    /\ result.report.summary.passed_checks > 0

\* C5: in every report errors + warnings <= failed_checks; errors is the
\* number of failing outcomes of severity error and warnings the number of
\* failing outcomes of severity warning; no passing outcome is counted.
C5_ErrorsAndWarningsAreFailures ==
    HasReport =>
        LET sm  == result.report.summary
            all == result.report.validation_results
            Failing(sev) == {i \in 1..Len(all) : ~all[i].passed /\ all[i].severity = sev}
        IN  /\ sm.errors + sm.warnings <= sm.failed_checks
            /\ sm.errors = Cardinality(Failing("error"))
            /\ sm.warnings = Cardinality(Failing("warning"))

\* A report with a passing outcome of severity warning and a failing one.
C5_Witness ==
    /\ HasReport
    /\ \E i \in 1..Len(result.report.validation_results) :
            /\ result.report.validation_results[i].passed
            /\ result.report.validation_results[i].severity = "warning"
    /\ result.report.summary.failed_checks > 0

C7_OneOutcomePerEntry ==
    HasReport =>
        LET ret == validate_consistency(quality_rules, submission)
        IN  /\ ~ret.raised
            /\ RuleIds(ret.results) = RuleIds(quality_rules.consistency_checks)
            /\ ConsistencyOutcomes(result.report) = ret.results

IsImplemented(check) == check.rule_id \in ConsistencyRuleIds

\* C8: an entry of consistency_checks whose rule_id has no predicate is
\* skipped with a logged warning: the call does not raise because of it, the
\* entry is not counted as a passed check, the other entries are evaluated,
\* and a warning has been logged.
C8_UnknownRuleSkippedWithWarning ==
    (/\ result.status # "none"
     /\ \E i \in 1..Len(quality_rules.consistency_checks) :
            ~IsImplemented(quality_rules.consistency_checks[i]))
    => /\ warnings_logged # <<>>
       /\ HasReport =>
            /\ Len(ConsistencyOutcomes(result.report))
                = Len(SelectSeq(quality_rules.consistency_checks, IsImplemented))
            /\ result.report.summary.total_checks
                = Len(RequiredOutcomes(result.report))
                  + Len(SelectSeq(quality_rules.consistency_checks, IsImplemented))

\* The exact comparisons of a Decimal with a whole number.
DecLt(d, n) == d.n < n \/ (d.n = n /\ d.eps < 0)
DecLe(d, n) == d.n < n \/ (d.n = n /\ d.eps <= 0)
DecGt(d, n) == ~DecLe(d, n)
DecGe(d, n) == ~DecLt(d, n)

\* The outcomes of a rule id in a report.
OutcomesOf(report, rule_id) ==
    {report.validation_results[i] : i \in
        {j \in 1..Len(report.validation_results) :
            report.validation_results[j].rule_id = rule_id}}

\* C9: the CONS-001 outcome passes exactly when employee_count < 5 implies
\* revenue < 1,000,000, 5 <= employee_count <= 50 implies 500,000 <= revenue
\* <= 50,000,000, and employee_count > 100 implies revenue > 5,000,000 (so
\* that it passes for every revenue when employee_count is in 51..100).
C9_RevenueEmployeeRule ==
    HasReport =>
        \A o \in OutcomesOf(result.report, "CONS-001") :
            LET revenue   == submission.annual_revenue
                employees == submission.employee_count.v
            IN  o.passed <=>
                    /\ employees < 5 => DecLt(revenue, 1000000)
                    /\ (5 <= employees /\ employees <= 50) =>
                            (DecGe(revenue, 500000) /\ DecLe(revenue, 50000000))
                    /\ employees > 100 => DecGt(revenue, 5000000)

\* C10: the CONS-002 outcome fails exactly when years_in_business < 2 and
\* annual_revenue >= 5,000,000.
C10_YearsRevenueRule ==
    HasReport =>
        \A o \in OutcomesOf(result.report, "CONS-002") :
            ~o.passed <=>
                /\ submission.years_in_business.v < 2
                /\ DecGe(submission.annual_revenue, 5000000)

\* The characters class \d accepts.
IsDecimalDigit(c) == c \in AsciiDigits \cup UnicodeDigits

\* C11: the CONS-003 outcome passes exactly when naics_code consists of six
\* decimal digits and nothing else; a code of another length or with a
\* character that is no digit fails.
C11_NaicsRule ==
    HasReport =>
        \A o \in OutcomesOf(result.report, "CONS-003") :
            LET code == submission.naics_code.v
            IN  o.passed <=>
                    /\ Len(code) = 6
                    /\ \A i \in 1..Len(code) : IsDecimalDigit(code[i])

\* The outcomes of validate_consistency paired with the contract entries
\* they come from: the entries with a branch, in contract order.
ImplementedChecks(rules) ==
    SelectSeq(Get(rules, "consistency_checks", <<>>), IsImplemented)

\* C12: the severity of a consistency outcome is error when its contract
\* entry declares 'error' and warning for every other declared severity
\* ('warning', 'info').
C12_SeverityFromContract ==
    HasReport =>
        LET checks   == ImplementedChecks(quality_rules)
            outcomes == ConsistencyOutcomes(result.report)
        IN  /\ Len(outcomes) = Len(checks)
            /\ \A i \in 1..Len(outcomes) :
                    outcomes[i].severity =
                        IF checks[i].severity = "error"
                        THEN Severity.ERROR ELSE Severity.WARNING

\* The field rules validate_required_fields reads: those of basic_info,
\* then those of coverage_info.
FieldRulesRead(rules) ==
    LET required_fields == Get(rules, "required_fields", EmptyDict)
    IN  Get(required_fields, "basic_info", <<>>)
        \o Get(required_fields, "coverage_info", <<>>)

\* The required-field outcomes of a report that name a field.
OutcomesForField(report, field_name) ==
    SelectSeq(RequiredOutcomes(report), LAMBDA o : o.field_name = field_name)

\* A rule with nullable == false on a value the record does not have.
IsMissingRequired(rule, record) ==
    Get(rule, "nullable", TRUE) = FALSE /\ IsNone(GetAttr(record, rule.field))

IsUnconstrained(rule) ==
    ~(Has(rule, "pattern") \/ Has(rule, "min_length")
        \/ Has(rule, "max_length") \/ Has(rule, "range"))

\* C14: every field rule contributes at least one outcome to the list of
\* validate_required_fields; a rule without pattern, length or range on a
\* value that is present yields exactly one outcome, passing, of severity
\* info, with rule id REQ-<FIELD>.  Stated on the rules of basic_info and
\* coverage_info.
C14_EveryRuleHasOutcome ==
    HasReport =>
        \A i \in 1..Len(FieldRulesRead(quality_rules)) :
            LET rule == FieldRulesRead(quality_rules)[i]
                outs == OutcomesForField(result.report, rule.field)
            IN  /\ Len(outs) >= 1
                /\ (IsUnconstrained(rule) /\ ~IsNone(GetAttr(submission, rule.field))) =>
                        /\ Len(outs) = 1
                        /\ outs[1].passed
                        /\ outs[1].severity = Severity.INFO
                        /\ outs[1].rule_id = "REQ-" \o Upper(rule.field)

\* C15: the field rules of every category of required_fields are evaluated,
\* whatever the name of the category, with the same checks: a rule with
\* nullable == false on an absent value has its failing REQ-<FIELD> outcome,
\* and a rule with a pattern, a length or a range on a present value has its
\* PATTERN, LENGTH or RANGE outcome.
C15_EveryCategoryEvaluated ==
    HasReport =>
        LET required_fields == Get(quality_rules, "required_fields", EmptyDict)
            outcomes        == RequiredOutcomes(result.report)
            HasOutcome(rule_id) ==
                \E k \in 1..Len(outcomes) : outcomes[k].rule_id = rule_id
        IN  \A category \in DOMAIN required_fields :
                \A i \in 1..Len(required_fields[category]) :
                    LET rule  == required_fields[category][i]
                        req   == "REQ-" \o Upper(rule.field)
                        value == GetAttr(submission, rule.field)
                    IN  /\ IsMissingRequired(rule, submission) => HasOutcome(req)
                        /\ (~IsNone(value) /\ Has(rule, "pattern"))
                                => HasOutcome(req \o "-PATTERN")
                        /\ (~IsNone(value)
                            /\ (Has(rule, "min_length") \/ Has(rule, "max_length")))
                                => HasOutcome(req \o "-LENGTH")
                        /\ (~IsNone(value) /\ Has(rule, "range"))
                                => HasOutcome(req \o "-RANGE")

\* A rule with a range on a present value that float() does not accept.
IsUnparsable(rule, record) ==
    /\ Has(rule, "range")
    /\ ~IsNone(GetAttr(record, rule.field))
    /\ FloatRaises(GetAttr(record, rule.field))

\* C16: when a rule declares a range and the value of the record cannot be
\* converted to a number, the call does not raise: the outcomes hold a
\* failing REQ-<FIELD>-RANGE outcome with a message, and the other rules
\* are evaluated.
C16_UnparsableValueFailsRange ==
    result.status # "none" =>
        \A i \in 1..Len(FieldRulesRead(quality_rules)) :
            LET rule == FieldRulesRead(quality_rules)[i]
            IN  IsUnparsable(rule, submission) =>
                    /\ HasReport
                    /\ \E k \in 1..Len(result.report.validation_results) :
                        LET o == result.report.validation_results[k]
                        IN  /\ o.rule_id = "REQ-" \o Upper(rule.field) \o "-RANGE"
                            /\ ~o.passed
                            /\ o.error_message # NoneStr

\* A score in hundredths is round(passed / total, 2), or 1.0 when the list
\* of outcomes is empty; it is the hundredth nearest to the exact ratio.
IsPassRatio(score, outcomes) ==
    LET total  == Len(outcomes)
        passed == CountPassed(outcomes)
        gap    == 100 * passed - score * total
    IN  /\ total = 0 => score = 100
        /\ total > 0 =>
                /\ score = Round2(FDiv(passed, total))
                /\ 2 * (IF gap < 0 THEN 0 - gap ELSE gap) <= total
        /\ passed = total => score = 100

\* C17: completeness_score is the number of passing required-field outcomes
\* over the number of required-field outcomes and consistency_score the
\* number of passing consistency outcomes over the number of consistency
\* outcomes (to two decimals); a score over an empty list is 1.0 and the
\* call returns; when every required-field outcome passes, completeness is
\* exactly 1.0.
C17_ScoresArePassRatios ==
    /\ HasReport =>
        /\ IsPassRatio(result.report.completeness_score,
                       RequiredOutcomes(result.report))
        /\ IsPassRatio(result.report.consistency_score,
                       ConsistencyOutcomes(result.report))
    /\ (/\ result.status # "none"
        /\ FieldRulesRead(quality_rules) = <<>>
        /\ ImplementedChecks(quality_rules) = <<>>) => HasReport

\* A report without required-field outcomes whose consistency outcomes
\* pass in part.
C17_Witness ==
    /\ HasReport
    /\ RequiredOutcomes(result.report) = <<>>
    /\ result.report.completeness_score = 100
    /\ result.report.consistency_score \notin {0, 100}

\* The field_name of the failing outcomes of a report.
FailureSet(report) ==
    {report.validation_results[i].field_name : i \in
        {j \in 1..Len(report.validation_results) :
            ~report.validation_results[j].passed}}

\* The positions of the catalog entries that provide a field of the set.
Helpful(catalog, failing) ==
    {i \in 1..Len(catalog) :
        \E j \in 1..Len(catalog[i].fields_provided) :
            catalog[i].fields_provided[j] \in failing}

C19_CrossFieldFailuresSuggested ==
    HasReport =>
        LET suggestions == result.report.enrichment_suggestions
            Suggested(field) ==
                \E k \in 1..Len(suggestions) :
                    \E j \in 1..Len(suggestions[k].fields_provided) :
                        suggestions[k].fields_provided[j] = field
            Fails(rule_id) ==
                \E o \in OutcomesOf(result.report, rule_id) : ~o.passed
        IN  /\ Fails("CONS-001") =>
                    Suggested("annual_revenue") /\ Suggested("employee_count")
            /\ Fails("CONS-002") =>
                    Suggested("years_in_business") /\ Suggested("annual_revenue")

(***************************************************************************)
(* Part 9.  Construction of the validator from a contract file.            *)
(***************************************************************************)

\* A contract file of the contracts directory: whether it exists, and the
\* data yaml.safe_load reads from it.
ContractFile(exists, data) == [exists |-> exists, data |-> data]

\* ContractLoader.load_contract(name) on a loader with an empty cache: the
\* data of the file as read, or FileNotFoundError; no section is looked at.
load_contract(file) ==
    IF ~file.exists THEN Raised("FileNotFoundError")
    ELSE [raised |-> FALSE, contract_data |-> file.data]

\* SubmissionQualityValidator(contracts_dir): self.quality_rules is what the
\* loader returns.
SubmissionQualityValidator(file) ==
    LET loaded == load_contract(file)
    IN  IF loaded.raised THEN loaded
        ELSE [raised |-> FALSE, quality_rules |-> loaded.contract_data]

\* A contract without the given sections.
Lacking(contract, sections) ==
    [k \in DOMAIN contract \ sections |-> contract[k]]

RequiredSections == {"required_fields", "consistency_checks"}

LacksSection(contract) == ~(RequiredSections \subseteq DOMAIN contract)

\* The files of the runs: the contract of the tests and its extension,
\* whole and with one or both of the required sections left out, and a
\* file that does not exist.
ContractFiles ==
    {ContractFile(TRUE, Lacking(c, s)) :
        c \in {StandardContract, ExtendedContract},
        s \in (SUBSET RequiredSections)}
    \cup {ContractFile(FALSE, StandardContract)}

\* The state after a construction that did not raise.
InitLoaded ==
    \E file \in ContractFiles :
        LET validator == SubmissionQualityValidator(file)
        IN  /\ ~validator.raised
            /\ InitWith({validator.quality_rules}, Submissions)

LoaderSpec == InitLoaded /\ [][Next]_vars

\* C20: the construction of a validator from a contract without the
\* required_fields section or without the consistency_checks section
\* fails; no validator evaluates a record against such a contract.
C20_LackingContractRejected ==
    /\ \A file \in ContractFiles :
            (file.exists /\ LacksSection(file.data))
                => SubmissionQualityValidator(file).raised
    /\ LacksSection(quality_rules) => result.status = "none"

(***************************************************************************)
(* Part 10.  Records of the ACORDSubmission model, and further properties  *)
(* of the validator.                                                       *)
(***************************************************************************)

\* ACORDSubmission(**record) validates: the types, lengths and bounds of
\* the fields and the two field validators; the same test runs on every
\* assignment (validate_assignment).  Decimal bounds compare exactly.
ACORDSubmission(record) ==
    /\ record.business_name.t = "str"
    /\ Len(record.business_name.v) \in 3..200
    /\ StripRight(StripLeft(record.business_name.v)) # <<>>
    /\ record.naics_code.t = "str"
    /\ Len(record.naics_code.v) <= 10
    /\ ReMatch(SixDigits, record.naics_code.v)
    /\ record.annual_revenue.t = "dec"
    /\ DecGe(record.annual_revenue, 10000)
    /\ DecLe(record.annual_revenue, 1000000000)
    /\ record.employee_count.t = "int"
    /\ record.employee_count.v \in 1..100000
    /\ record.years_in_business.t = "int"
    /\ record.years_in_business.v \in 0..200
    /\ record.business_address.t = "str"
    /\ Len(record.business_address.v) <= 500
    /\ record.requested_coverage_types.t = "str"
    /\ Len(record.requested_coverage_types.v) <= 200
    /\ record.requested_limits.t = "str"
    /\ Len(record.requested_limits.v) <= 200

\* C21: validate_submission does not raise, whatever the values of the
\* record: a record without a value for a field that a rule or a predicate
\* of the contract needs still gets a report, in which that field has a
\* failing outcome.
C21_NeverRaises ==
    result.status # "none" =>
        /\ HasReport
        /\ \A i \in 1..Len(FieldRulesRead(quality_rules)) :
            LET rule == FieldRulesRead(quality_rules)[i]
            IN  IsNone(GetAttr(submission, rule.field)) =>
                    \E k \in 1..Len(result.report.validation_results) :
                        /\ result.report.validation_results[k].field_name = rule.field
                        /\ ~result.report.validation_results[k].passed

ConstraintIds(rule) ==
    LET req == "REQ-" \o Upper(rule.field)
    IN  (IF Has(rule, "pattern") THEN <<req \o "-PATTERN">> ELSE <<>>)
        \o (IF Has(rule, "min_length") \/ Has(rule, "max_length")
            THEN <<req \o "-LENGTH">> ELSE <<>>)
        \o (IF Has(rule, "range") THEN <<req \o "-RANGE">> ELSE <<>>)

\* Whether the value meets the constraint an outcome of the rule is about.
MeetsConstraint(rule, rule_id, value) ==
    LET req == "REQ-" \o Upper(rule.field)
    IN  CASE rule_id = req \o "-PATTERN" ->
                ReMatch(rule.pattern, StrChars(value))
          [] rule_id = req \o "-LENGTH" ->
                /\ Get(rule, "min_length", 0) <= Len(StrChars(value))
                /\ Has(rule, "max_length") => Len(StrChars(value)) <= rule.max_length
          [] rule_id = req \o "-RANGE" ->
                /\ ~FloatRaises(value)
                /\ rule.range[1] <= FloatOf(value)
                /\ FloatOf(value) <= rule.range[2]

\* The constraint outcomes of a rule in a report are those the rule
\* declares, in order, each passing (info) or failing (error) on its own
\* constraint; a failing PATTERN outcome carries the pattern.
HasConstraintOutcomes(report, rule, value) ==
    LET ids  == ConstraintIds(rule)
        outs == SelectSeq(RequiredOutcomes(report),
                    LAMBDA o : o.field_name = rule.field
                               /\ o.rule_id # "REQ-" \o Upper(rule.field))
    IN  /\ Len(outs) = Len(ids)
        /\ \A k \in 1..Len(outs) :
                /\ outs[k].rule_id = ids[k]
                /\ outs[k].passed = MeetsConstraint(rule, ids[k], value)
                /\ outs[k].severity =
                        IF outs[k].passed THEN Severity.INFO ELSE Severity.ERROR
                /\ (~outs[k].passed /\ ids[k] = "REQ-" \o Upper(rule.field) \o "-PATTERN")
                        => outs[k].expected_value = "Pattern: " \o rule.pattern

\* C25: for a field whose value is present, validate_required_fields emits
\* one outcome per declared constraint, in the order pattern, length, range,
\* each decided on its own: PATTERN on the match of str(value), LENGTH on
\* min_length <= len(str(value)) <= max_length, RANGE on the numeric value
\* within the inclusive bounds; info when passing, error when failing.
C25_OneOutcomePerConstraint ==
    result.status # "none" =>
        LET basic_info == Get(Get(quality_rules, "required_fields", EmptyDict),
                              "basic_info", <<>>)
        IN  \A i \in 1..Len(basic_info) :
                ~IsNone(GetAttr(submission, basic_info[i].field)) =>
                    /\ HasReport
                    /\ HasConstraintOutcomes(result.report, basic_info[i],
                                             GetAttr(submission, basic_info[i].field))

\* C30: for a record the ACORDSubmission model accepts, every CONS-003
\* outcome passes, so that the failing consistency outcomes of its report
\* are CONS-001 or CONS-002 outcomes.
C30_ModelRecordsPassNaics ==
    (HasReport /\ ACORDSubmission(submission)) =>
        /\ \A o \in OutcomesOf(result.report, "CONS-003") : o.passed
        /\ \A k \in 1..Len(ConsistencyOutcomes(result.report)) :
            ~ConsistencyOutcomes(result.report)[k].passed =>
                ConsistencyOutcomes(result.report)[k].rule_id
                    \in {"CONS-001", "CONS-002"}

\* A report for an accepted record whose naics_code is not six ASCII
\* digits, with a CONS-003 outcome.
C30_Witness ==
    /\ HasReport
    /\ ACORDSubmission(submission)
    /\ submission.naics_code # Naics541511
    /\ OutcomesOf(result.report, "CONS-003") # {}

(***************************************************************************)
(* Part 11.  One ContractLoader called from several threads                *)
(* (src/src/utils/contract_loader.py).  load_contract takes no lock; a     *)
(* thread can be preempted between any two of its statements.              *)
(***************************************************************************)

\* Threads sharing the loader, and load_contract calls each of them makes.
MaxThreads == 2
MaxLoads == 2

\* A contract name as the caller writes it: the stem and the extension.
ContractName(stem, ext) == [stem |-> stem, ext |-> ext]

\* Lines 47-48: a name without .yml or .yaml gets .yml.
WithExtension(contract_name) ==
    IF contract_name.ext # ".yml" /\ contract_name.ext # ".yaml"
    THEN ContractName(contract_name.stem, ".yml")
    ELSE contract_name

\* The files of contracts_dir: a contract that parses, and a file that is
\* not valid YAML.
RulesFile == ContractName("submission_quality_rules", ".yml")
BrokenFile == ContractName("broken", ".yml")
ContractsDir == {RulesFile, BrokenFile}

\* The names the callers ask for.
RequestedNames ==
    { ContractName("submission_quality_rules", ""), RulesFile,
      ContractName("broken", ""), ContractName("absent", "") }

\* The object yaml.safe_load returns for the load-th parse of a file: each
\* parse builds a new dict.
ContractData(file, load) == [file |-> file, load |-> load]

Idle == [pc |-> "idle", contract_name |-> RulesFile, contract_data |-> <<>>, outcome |-> <<>>, loads |-> 0]

InitCache ==
    /\ _cache = <<>>
    /\ file_reads = [file \in ContractsDir |-> 0]
    /\ callers = [t \in 1..MaxThreads |-> Idle]
    /\ quality_rules = StandardContract
    /\ submission = BaseRecord
    /\ calls = 0
    /\ result = NoResult
    /\ previous = NoResult
    /\ warnings_logged = <<>>
    /\ NoStream
    /\ NoBatch

\* A thread calls load_contract(contract_name): lines 47-48.
LoadContract(t) ==
    /\ callers[t].pc = "idle"
    /\ callers[t].loads < MaxLoads
    /\ \E contract_name \in RequestedNames :
        callers' = [callers EXCEPT ![t] =
            [pc |-> "check", contract_name |-> WithExtension(contract_name),
             contract_data |-> <<>>, outcome |-> <<>>,
             loads |-> callers[t].loads + 1]]
    /\ UNCHANGED <<_cache, file_reads, validator_vars, stream_vars, batch_vars>>

\* Lines 51-52: if contract_name in self._cache: return it.
CheckCache(t) ==
    /\ callers[t].pc = "check"
    /\ callers' = [callers EXCEPT ![t] =
        IF callers[t].contract_name \in DOMAIN _cache
        THEN [@ EXCEPT !.pc = "idle",
                       !.outcome = <<"returned", _cache[callers[t].contract_name]>>]
        ELSE [@ EXCEPT !.pc = "exists"]]
    /\ UNCHANGED <<_cache, file_reads, validator_vars, stream_vars, batch_vars>>

\* Lines 55-57: raise FileNotFoundError if the file does not exist.
CheckExists(t) ==
    /\ callers[t].pc = "exists"
    /\ callers' = [callers EXCEPT ![t] =
        IF callers[t].contract_name \notin ContractsDir
        THEN [@ EXCEPT !.pc = "idle", !.outcome = <<"raised", "FileNotFoundError">>]
        ELSE [@ EXCEPT !.pc = "open"]]
    /\ UNCHANGED <<_cache, file_reads, validator_vars, stream_vars, batch_vars>>

\* Lines 59-60: open the file and yaml.safe_load it.
ReadFile(t) ==
    /\ callers[t].pc = "open"
    /\ file_reads' = [file_reads EXCEPT ![callers[t].contract_name] = @ + 1]
    /\ callers' = [callers EXCEPT ![t] =
        IF callers[t].contract_name = BrokenFile
        THEN [@ EXCEPT !.pc = "idle", !.outcome = <<"raised", "YAMLError">>]
        ELSE [@ EXCEPT !.pc = "store",
                       !.contract_data =
                            ContractData(callers[t].contract_name,
                                         file_reads[callers[t].contract_name] + 1)]]
    /\ UNCHANGED <<_cache, validator_vars, stream_vars, batch_vars>>

\* Lines 63-64: self._cache[contract_name] = contract_data; return it.
CacheStore(t) ==
    /\ callers[t].pc = "store"
    /\ _cache' = [name \in DOMAIN _cache \cup {callers[t].contract_name} |->
                    IF name = callers[t].contract_name
                    THEN callers[t].contract_data
                    ELSE _cache[name]]
    /\ callers' = [callers EXCEPT ![t] =
        [@ EXCEPT !.pc = "idle", !.outcome = <<"returned", callers[t].contract_data>>]]
    /\ UNCHANGED <<file_reads, validator_vars, stream_vars, batch_vars>>

NextCache ==
    \/ \E t \in 1..MaxThreads : LoadContract(t)
    \/ \E t \in 1..MaxThreads : CheckCache(t)
    \/ \E t \in 1..MaxThreads : CheckExists(t)
    \/ \E t \in 1..MaxThreads : ReadFile(t)
    \/ \E t \in 1..MaxThreads : CacheStore(t)

CacheSpec == InitCache /\ [][NextCache]_vars

\* A thread whose last call for the file returned a contract.
Loaded(t, file) ==
    /\ callers[t].pc = "idle"
    /\ callers[t].contract_name = file
    /\ callers[t].outcome # <<>>
    /\ callers[t].outcome[1] = "returned"

\* C28: for one loader and one contract name, given with or without .yml,
\* the file is read at most once however the calls of concurrent callers
\* interleave, every call returns the same cached contract, and a load that
\* fails leaves no cache entry.  (Stated for the file that parses; a file
\* that does not parse is opened again by every call.)
C28_FileReadAtMostOnce ==
    /\ file_reads[RulesFile] <= 1
    /\ \A t, u \in 1..MaxThreads :
        (Loaded(t, RulesFile) /\ Loaded(u, RulesFile))
            => callers[t].outcome = callers[u].outcome
    /\ DOMAIN _cache \subseteq {RulesFile}

(***************************************************************************)
(* Part 12.  The stream processor                                          *)
(* (src/src/streaming/submission_stream_processor.py) and its agents.      *)
(*                                                                         *)
(* Each process_submission_stream call is a coroutine.  The event loop     *)
(* runs one coroutine at a time and leaves it only where it suspends: at   *)
(* the asyncio.sleep of _call_enrichment_api, and when it returns or       *)
(* raises.  The three methods the enrichment agent leaves as placeholders  *)
(* (_identify_missing_fields, _create_enrichment_plan, the value of        *)
(* _call_enrichment_api) take their result from a small set that holds     *)
(* the value of the source, so that every statement of enrich_submission   *)
(* is exercised; the anomaly detectors (a fitted IsolationForest) are a    *)
(* choice among lists of anomaly types.  Costs are thousandths of a        *)
(* dollar, confidence scores of a decision are hundredths.                 *)
(***************************************************************************)

\* Submissions handed to one processor.
MaxTasks == 2

\* A record with its submission_id.
WithId(record, submission_id) ==
    [f \in DOMAIN record \cup {"submission_id"} |->
        IF f = "submission_id" THEN submission_id ELSE record[f]]

\* A record failing CONS-001 and CONS-002 (two warnings).
InconsistentRecord ==
    [BaseRecord EXCEPT !.annual_revenue = Dec(50000000, 0),
                       !.employee_count = Int_(3),
                       !.years_in_business = Int_(1)]

\* The records that arrive, in their order of arrival, which starts over
\* after the last: inconsistent; complete; with a name that is too short
\* (one error); with four values missing; with no revenue.
Arrivals ==
    << InconsistentRecord, BaseRecord,
       [BaseRecord EXCEPT !.business_name = ShortName],
       Without(BaseRecord, {"business_name", "business_address",
                            "requested_coverage_types", "requested_limits"}),
       Without(BaseRecord, {"annual_revenue"}) >>

\* The i-th record handed to the processor when the first is Arrivals[first].
Arrival(first, i) == Arrivals[((first + i - 2) % Len(Arrivals)) + 1]

\* The submission_id of the i-th submission.
SubmissionId(i) == "SUB-" \o ToString(i)

\* QualityAgent._calculate_confidence(validation_result), a double.
_calculate_confidence(validation_result) ==
    LET summary_ == validation_result.summary
    IN  IF summary_.errors = 0 /\ summary_.warnings = 0 THEN FDiv(95, 100)
        ELSE IF summary_.errors = 0 /\ summary_.warnings <= 2 THEN FDiv(85, 100)
        ELSE LET error_ratio == FDiv(summary_.errors, summary_.total_checks)
             IN  FMax(FDiv(1, 2), FSub(One, error_ratio))

\* QualityAgent.assess_quality(submission) with the validator's contract:
\* the QualityAssessmentResult, or the exception of validate_submission.
\* Of validation_details the summary is kept; agent_reasoning is a text
\* built from the same numbers and is left out.
assess_quality(rules, record) ==
    LET ret == validate_submission(rules, record)
    IN  IF ret.raised THEN ret
        ELSE [raised |-> FALSE,
              quality_score      |-> ret.report.overall_quality_score,
              completeness_score |-> ret.report.completeness_score,
              consistency_score  |-> ret.report.consistency_score,
              summary            |-> ret.report.summary,
              confidence         |-> _calculate_confidence(ret.report)]

\* Line 69 of the processor, with the score in hundredths: a score that
\* never reaches 0.8 after a stage that does.
NeedsEnrichmentBelowSeven(quality_result) == quality_result.quality_score < 70

\* Line 69: if quality_result.quality_score < 0.8.
NeedsEnrichment(quality_result) == quality_result.quality_score < 80

\* agent_config['cost_budget_per_submission'], in thousandths of a dollar.
CostBudget == 50

EnrichmentDecision(field_name, api_source, confidence_score, cost_estimate, enriched_value) ==
    [field_name |-> field_name, api_source |-> api_source,
     confidence_score |-> confidence_score, cost_estimate |-> cost_estimate,
     enriched_value |-> enriched_value]

\* Decisions a plan can hold, with the value the API gives when it answers.
YearsDecision ==
    EnrichmentDecision("years_in_business", "opencorporates", 60, 10, Int_(5))
AddressDecision ==
    EnrichmentDecision("business_address", "google_places", 80, 20, MainSt)
EmployeeDecision ==
    EnrichmentDecision("employee_count", "dun_bradstreet", 90, 50, Int_(75))
NameDecision ==
    EnrichmentDecision("business_name", "opencorporates", 90, 30, ShortName)

\* What _identify_missing_fields returns: [] in the source.
MissingFieldChoices ==
    { <<>>, <<"business_name", "employee_count", "years_in_business",
              "business_address">> }

\* What _create_enrichment_plan returns for the missing fields: [] in the
\* source; a plan is sorted by confidence_score * 10 / max(cost, 0.01),
\* highest first (600, 400, 300, 180 for the four decisions).
PlanChoices(missing_fields) ==
    IF missing_fields = <<>> THEN {<<>>}
    ELSE { <<>>, <<EmployeeDecision>>, <<NameDecision>>,
           <<YearsDecision, EmployeeDecision>>,
           <<YearsDecision, AddressDecision, EmployeeDecision>> }

\* What detect_anomalies returns: the anomaly types above the threshold.
AnomalyChoices == { <<>>, <<"statistical_outlier">> }

\* An entry of last_decision_log, with the coroutine that wrote it.
LogEntry(text, task) == [text |-> text, task |-> task]

\* _apply_enrichments: model_dump(), update(enriched_data).
Enriched(record, enriched_data) ==
    [f \in DOMAIN record |->
        IF f \in DOMAIN enriched_data THEN enriched_data[f] ELSE record[f]]

\* A stage a coroutine went through.
Stage(name, score, record) == [stage |-> name, score |-> score, record |-> record]

NoQualityResult == [raised |-> TRUE, error |-> "none"]

\* A coroutine that has not run yet.
Pending(record, submission_id) ==
    [pc |-> "pending", submission |-> WithId(record, submission_id),
     quality_result |-> NoQualityResult, enrichment_applied |-> FALSE,
     enrichment_plan |-> <<>>, next |-> 1, enriched_data |-> <<>>,
     total_cost |-> 0, enriched_submission |-> <<>>,
     anomalies |-> <<>>, stages |-> <<>>,
     result |-> <<>>, error |-> ""]

InitStream ==
    /\ \E first \in 1..Len(Arrivals) :
        tasks = [i \in 1..MaxTasks |-> Pending(Arrival(first, i), SubmissionId(i))]
    /\ last_decision_log = <<>>
    /\ running = 0
    /\ gathered \in BOOLEAN
    /\ quality_rules = StandardContract
    /\ submission = BaseRecord
    /\ calls = 0
    /\ result = NoResult
    /\ previous = NoResult
    /\ warnings_logged = <<>>
    /\ NoLoaderCalls
    /\ NoBatch

Finished(task) == task.pc \in {"done", "raised"}

\* The coroutine raises: the exception leaves process_submission_stream
\* and the locals of the enrichment loop are gone.
Raise(i, error) ==
    /\ tasks' = [tasks EXCEPT ![i] =
            [@ EXCEPT !.pc = "raised", !.error = error,
                      !.enrichment_plan = <<>>, !.next = 1,
                      !.enriched_data = <<>>, !.total_cost = 0]]
    /\ running' = 0

\* The event loop starts coroutine i.  asyncio.gather starts the coroutines
\* of process_batch in list order; a caller that awaits each call starts
\* the next when the one before has returned or raised.
StartTask(i) ==
    /\ running = 0
    /\ tasks[i].pc = "pending"
    /\ \A j \in 1..(i - 1) :
        IF gathered THEN tasks[j].pc # "pending" ELSE Finished(tasks[j])
    /\ running' = i
    /\ tasks' = [tasks EXCEPT ![i] = [@ EXCEPT !.pc = "assess"]]
    /\ UNCHANGED <<last_decision_log, gathered>>

\* await self.quality_agent.assess_quality(submission): the initial
\* assessment with the enrichment test (lines 65-69), and the assessment of
\* the enriched submission (lines 72-74).
AssessQuality(i) ==
    /\ running = i
    /\ tasks[i].pc \in {"assess", "reassess"}
    /\ \E quality_result \in {assess_quality(quality_rules, tasks[i].submission)} :
           IF quality_result.raised
           THEN Raise(i, quality_result.error)
           ELSE /\ tasks' = [tasks EXCEPT ![i] =
                    [@ EXCEPT !.quality_result = quality_result,
                              !.enrichment_applied = (tasks[i].pc = "reassess"),
                              !.stages = Append(@, Stage("assess",
                                            quality_result.quality_score,
                                            tasks[i].submission)),
                              !.pc = IF tasks[i].pc = "assess"
                                        /\ NeedsEnrichment(quality_result)
                                     THEN "enrich" ELSE "anomalies"]]
                /\ UNCHANGED running
    /\ UNCHANGED <<last_decision_log, gathered>>

\* Line 70 and enrich_submission up to its loop (agent lines 64-78).
EnrichSubmission(i) ==
    /\ running = i
    /\ tasks[i].pc = "enrich"
    /\ \E missing_fields \in MissingFieldChoices :
       \E enrichment_plan \in PlanChoices(missing_fields) :
        IF missing_fields = <<>>
        THEN /\ last_decision_log' =
                    <<LogEntry("No missing fields identified - enrichment not needed", i)>>
             /\ tasks' = [tasks EXCEPT ![i] =
                    [@ EXCEPT !.pc = "anomalies",
                              !.stages = Append(@, Stage("enrich", 0, <<>>))]]
        ELSE IF enrichment_plan = <<>>
        THEN /\ last_decision_log' =
                    <<LogEntry("No viable enrichment options within budget", i)>>
             /\ tasks' = [tasks EXCEPT ![i] =
                    [@ EXCEPT !.pc = "anomalies",
                              !.stages = Append(@, Stage("enrich", 0, <<>>))]]
        ELSE /\ tasks' = [tasks EXCEPT ![i] =
                    [@ EXCEPT !.pc = "plan",
                              !.enrichment_plan = enrichment_plan,
                              !.next = 1, !.enriched_data = <<>>,
                              !.total_cost = 0,
                              !.stages = Append(@, Stage("enrich", 0, <<>>))]]
             /\ UNCHANGED last_decision_log
    /\ UNCHANGED <<running, gathered>>

\* Agent lines 80-86: the head of the loop, the budget test, and the call
\* of _call_enrichment_api, which suspends the coroutine in asyncio.sleep.
PlanStep(i) ==
    /\ running = i
    /\ tasks[i].pc = "plan"
    /\ tasks[i].next <= Len(tasks[i].enrichment_plan)
    /\ LET decision == tasks[i].enrichment_plan[tasks[i].next]
       IN  IF tasks[i].total_cost + decision.cost_estimate > CostBudget
           THEN /\ last_decision_log' = Append(last_decision_log,
                        LogEntry("Skipping " \o decision.field_name
                                 \o " - would exceed budget", i))
                /\ tasks' = [tasks EXCEPT ![i] = [@ EXCEPT !.pc = "apply"]]
                /\ UNCHANGED running
           ELSE /\ tasks' = [tasks EXCEPT ![i] = [@ EXCEPT !.pc = "api"]]
                /\ running' = 0
                /\ UNCHANGED last_decision_log
    /\ UNCHANGED gathered

\* Agent lines 86-98: the sleep is over and the API has answered (None in
\* the source) or not; the decision is logged.
ApiReturn(i) ==
    /\ running = 0
    /\ tasks[i].pc = "api"
    /\ running' = i
    /\ LET decision == tasks[i].enrichment_plan[tasks[i].next]
       IN  \E enriched_value \in {None, decision.enriched_value} :
            IF ~IsNone(enriched_value) /\ decision.confidence_score > 70
            THEN /\ tasks' = [tasks EXCEPT ![i] =
                        [@ EXCEPT !.pc = "plan", !.next = @ + 1,
                                  !.total_cost = @ + decision.cost_estimate,
                                  !.enriched_data =
                                    [f \in DOMAIN @ \cup {decision.field_name} |->
                                        IF f = decision.field_name
                                        THEN enriched_value
                                        ELSE tasks[i].enriched_data[f]]]]
                 /\ last_decision_log' = Append(last_decision_log,
                        LogEntry("Enriched " \o decision.field_name \o " from "
                                 \o decision.api_source, i))
            ELSE /\ tasks' = [tasks EXCEPT ![i] =
                        [@ EXCEPT !.pc = "plan", !.next = @ + 1]]
                 /\ last_decision_log' = Append(last_decision_log,
                        LogEntry("Skipped " \o decision.field_name
                                 \o " - low confidence or API failure", i))
    /\ UNCHANGED gathered

\* The loop has gone through the plan.
PlanDone(i) ==
    /\ running = i
    /\ tasks[i].pc = "plan"
    /\ tasks[i].next > Len(tasks[i].enrichment_plan)
    /\ tasks' = [tasks EXCEPT ![i] = [@ EXCEPT !.pc = "apply"]]
    /\ UNCHANGED <<last_decision_log, running, gathered>>

\* Agent lines 100-103 and processor lines 71-72: enrich_submission
\* returns the new ACORDSubmission (whose construction validates it) or
\* None.
ApplyEnrichments(i) ==
    /\ running = i
    /\ tasks[i].pc = "apply"
    /\ IF tasks[i].enriched_data = <<>>
       THEN /\ tasks' = [tasks EXCEPT ![i] = [@ EXCEPT !.pc = "anomalies"]]
            /\ UNCHANGED running
       ELSE LET enriched_submission ==
                    Enriched(tasks[i].submission, tasks[i].enriched_data)
            IN  IF ACORDSubmission(enriched_submission)
                THEN /\ tasks' = [tasks EXCEPT ![i] =
                            [@ EXCEPT !.pc = "reassess",
                                      !.enriched_submission = enriched_submission,
                                      !.submission = enriched_submission]]
                     /\ UNCHANGED running
                ELSE Raise(i, "ValidationError")
    /\ UNCHANGED <<last_decision_log, gathered>>

\* Line 77: anomalies = await detect_anomalies(submission, quality_result).
DetectAnomalies(i) ==
    /\ running = i
    /\ tasks[i].pc = "anomalies"
    /\ \E anomalies \in AnomalyChoices :
        tasks' = [tasks EXCEPT ![i] =
            [@ EXCEPT !.pc = "store", !.anomalies = anomalies,
                      !.stages = Append(@, Stage("anomalies",
                                    tasks[i].quality_result.quality_score,
                                    tasks[i].submission))]]
    /\ UNCHANGED <<last_decision_log, running, gathered>>

\* Lines 82-100: the ProcessingResult of a coroutine.
ProcessingResult(task, decision_log) ==
    [submission_id      |-> task.submission.submission_id,
     quality_score      |-> task.quality_result.quality_score,
     enrichment_applied |-> task.enrichment_applied,
     anomalies_detected |-> task.anomalies,
     ai_agent_decisions |-> [enrichment_agent |-> decision_log,
                             anomaly_agent    |-> task.anomalies]]

\* Lines 82-104: build the result, _store_result(result), return it.
StoreResult(i) ==
    /\ running = i
    /\ tasks[i].pc = "store"
    /\ tasks' = [tasks EXCEPT ![i] =
        [@ EXCEPT !.pc = "done",
                  !.enrichment_plan = <<>>, !.next = 1,
                  !.enriched_data = <<>>, !.total_cost = 0,
                  !.result = ProcessingResult(tasks[i], last_decision_log),
                  !.stages = Append(@, Stage("store",
                                tasks[i].quality_result.quality_score,
                                tasks[i].submission))]]
    /\ running' = 0
    /\ UNCHANGED <<last_decision_log, gathered>>

NextStream ==
    \/ \E i \in DOMAIN tasks : StartTask(i) /\ UNCHANGED <<validator_vars, loader_vars, batch_vars>>
    \/ \E i \in DOMAIN tasks : AssessQuality(i) /\ UNCHANGED <<validator_vars, loader_vars, batch_vars>>
    \/ \E i \in DOMAIN tasks : EnrichSubmission(i) /\ UNCHANGED <<validator_vars, loader_vars, batch_vars>>
    \/ \E i \in DOMAIN tasks : PlanStep(i) /\ UNCHANGED <<validator_vars, loader_vars, batch_vars>>
    \/ \E i \in DOMAIN tasks : ApiReturn(i) /\ UNCHANGED <<validator_vars, loader_vars, batch_vars>>
    \/ \E i \in DOMAIN tasks : PlanDone(i) /\ UNCHANGED <<validator_vars, loader_vars, batch_vars>>
    \/ \E i \in DOMAIN tasks : ApplyEnrichments(i) /\ UNCHANGED <<validator_vars, loader_vars, batch_vars>>
    \/ \E i \in DOMAIN tasks : DetectAnomalies(i) /\ UNCHANGED <<validator_vars, loader_vars, batch_vars>>
    \/ \E i \in DOMAIN tasks : StoreResult(i) /\ UNCHANGED <<validator_vars, loader_vars, batch_vars>>

StreamSpec == InitStream /\ [][NextStream]_vars

\* The names of the stages a coroutine went through so far.
StageNames(task) == [k \in 1..Len(task.stages) |-> task.stages[k].stage]

\* The stages of a call that has returned, given the score of the initial
\* assessment and whether enrich_submission returned a submission.
ExpectedStages(initial_score, enriched) ==
    <<"assess">>
    \o (IF initial_score < 80 THEN <<"enrich">> ELSE <<>>)
    \o (IF enriched THEN <<"assess">> ELSE <<>>)
    \o <<"anomalies", "store">>

IsPrefix(s, t) == Len(s) <= Len(t) /\ s = SubSeq(t, 1, Len(s))

\* C26: process_submission_stream goes through its stages in a fixed
\* order: the initial assessment; enrich_submission only if the initial
\* score is below 0.8; a second assessment if and only if the enrichment
\* returned a submission, and then enrichment_applied is true and the
\* quality_score of the result is that of the second assessment; anomaly
\* detection exactly once, after those, on the submission as enriched (or
\* not); the result stored last.  With an initial score of 0.8 or more
\* enrichment_applied is false and the quality_score is the initial one.
C26_StagesInOrder ==
    \A i \in DOMAIN tasks :
        LET task == tasks[i]
            names == StageNames(task)
            enriched == task.enriched_submission # <<>>
        IN  /\ \E initial_score \in {0, 100} : \E e \in BOOLEAN :
                IsPrefix(names, ExpectedStages(initial_score, e))
            /\ task.pc = "done" =>
                LET initial == task.stages[1]
                    last == task.stages[Len(task.stages) - 2]
                    detect == task.stages[Len(task.stages) - 1]
                IN  /\ names = ExpectedStages(initial.score, enriched)
                    /\ enriched => initial.score < 80
                    /\ task.result.enrichment_applied = enriched
                    /\ detect.stage = "anomalies"
                    /\ detect.record =
                        IF enriched THEN task.enriched_submission
                        ELSE initial.record
                    /\ enriched =>
                        /\ last.stage = "assess"
                        /\ last.record = task.enriched_submission
                        /\ task.result.quality_score = last.score
                    /\ ~enriched => task.result.quality_score = initial.score
                    /\ initial.score >= 80 =>
                        /\ ~task.result.enrichment_applied
                        /\ task.result.quality_score = initial.score

\* A call has returned a result with enrichment applied and the score of
\* the second assessment, another a result without an enrichment attempt.
C26_Witness ==
    /\ \E i \in DOMAIN tasks :
        /\ tasks[i].pc = "done"
        /\ tasks[i].result.enrichment_applied
        /\ tasks[i].result.quality_score # tasks[i].stages[1].score
        /\ StageNames(tasks[i]) = <<"assess", "enrich", "assess", "anomalies", "store">>
    /\ \E i \in DOMAIN tasks :
        /\ tasks[i].pc = "done"
        /\ StageNames(tasks[i]) = <<"assess", "anomalies", "store">>

\* C27: the confidence of an assessment is within [0, 1], is above 0.9
\* only when the summary has no error and no warning, and is below 0.7
\* whenever the summary has at least one error.
C27_ConfidenceBands ==
    \A i \in DOMAIN tasks :
        ~tasks[i].quality_result.raised =>
            LET confidence == tasks[i].quality_result.confidence
                summary_ == tasks[i].quality_result.summary
            IN  /\ ~FLt(One, confidence)
                /\ FLt(FDiv(9, 10), confidence) =>
                        (summary_.errors = 0 /\ summary_.warnings = 0)
                /\ summary_.errors >= 1 => FLt(confidence, FDiv(7, 10))

\* C29: the result of a call carries under
\* ai_agent_decisions['enrichment_agent'] only entries logged while that
\* call handled its submission, and none when the call did not attempt an
\* enrichment.
C29_OwnDecisionLogOnly ==
    \A i \in DOMAIN tasks :
        tasks[i].pc = "done" =>
            LET log == tasks[i].result.ai_agent_decisions.enrichment_agent
            IN  /\ \A k \in 1..Len(log) : log[k].task = i
                /\ tasks[i].stages[1].score >= 80 => log = <<>>

(***************************************************************************)
(* Part 13.  The batch processor                                           *)
(* (src/src/orchestrator/batch_processor.py) and the DuckDB writer         *)
(* (src/src/database/duckdb_writer.py).                                    *)
(*                                                                         *)
(* process_all_files handles the files one after the other; the call of    *)
(* process_submission_stream for a file is a coroutine of Part 12, awaited *)
(* before the next statement.  A file either parses into a submission or   *)
(* makes parse_xml raise; an INSERT is executed or fails with a database   *)
(* error.  total_time_seconds and avg_quality_score of the summary are     *)
(* left out.                                                               *)
(***************************************************************************)

\* Files in the data directory.
MaxFiles == 2

\* An XML file: its name, whether parse_xml accepts it, and the submission
\* it holds.
XmlFile(name, parses, submission_id, record) ==
    [name |-> name, parses |-> parses, submission_id |-> submission_id, record |-> record]

\* The files a directory is filled from, in glob order, which starts over
\* after the last: an inconsistent submission; a complete one; a second
\* file with the submission_id of the second; a file that is not
\* well-formed; a submission without revenue; another complete one.
SampleFiles ==
    << XmlFile("a.xml", TRUE, "SUB-A", InconsistentRecord),
       XmlFile("b.xml", TRUE, "SUB-B", BaseRecord),
       XmlFile("c.xml", TRUE, "SUB-B", BaseRecord),
       XmlFile("d.xml", FALSE, "", BaseRecord),
       XmlFile("e.xml", TRUE, "SUB-E", Without(BaseRecord, {"annual_revenue"})),
       XmlFile("f.xml", TRUE, "SUB-F", BaseRecord) >>

\* The loop variable after the except clause for file k (lines 85-90): an
\* except clause that gives up on the directory.
AfterExceptionAbort(files, k) == Len(files) + 1

\* The loop variable after the except clause for file k (lines 85-90): the
\* loop goes on with the next file.
AfterException(files, k) == k + 1

\* Lines 70-77 and 87-90: the entries of results.
SuccessEntry(file, processing_result) ==
    [file |-> file.name, submission_id |-> file.submission_id,
     quality_score |-> processing_result.quality_score,
     enriched |-> processing_result.enrichment_applied,
     anomalies |-> Len(processing_result.anomalies_detected)]

ErrorEntry(file, error) == [file |-> file.name, error |-> error]

IsError(entry) == "error" \in DOMAIN entry

\* Lines 94-104: the summary.
BatchSummary(files, entries) ==
    [total_files |-> Len(files),
     successful  |-> Len(SelectSeq(entries, LAMBDA r : ~IsError(r))),
     failed      |-> Len(SelectSeq(entries, LAMBDA r : IsError(r))),
     results     |-> entries]

InitBatch ==
    /\ \E first \in 1..Len(SampleFiles) :
        xml_files = [k \in 1..MaxFiles |->
                        SampleFiles[((first + k - 2) % Len(SampleFiles)) + 1]]
    /\ position = [file |-> 1, pc |-> "parse"]
    /\ results = <<>>
    /\ submissions_table = <<>>
    /\ processing_results_table = <<>>
    /\ batch_summary = <<>>
    /\ NoStream
    /\ quality_rules = StandardContract
    /\ submission = BaseRecord
    /\ calls = 0
    /\ result = NoResult
    /\ previous = NoResult
    /\ warnings_logged = <<>>
    /\ NoLoaderCalls

\* Lines 85-90: the except clause.
Except(error) ==
    /\ results' = Append(results, ErrorEntry(xml_files[position.file], error))
    /\ position' = [file |-> AfterException(xml_files, position.file), pc |-> "parse"]

\* Lines 57-64: the next file is parsed and its submission handed to
\* process_submission_stream.
ParseXml ==
    /\ position.pc = "parse"
    /\ position.file <= Len(xml_files)
    /\ LET file == xml_files[position.file]
       IN  IF file.parses
           THEN /\ tasks' = Append(tasks, Pending(file.record, file.submission_id))
                /\ position' = [position EXCEPT !.pc = "process"]
                /\ UNCHANGED results
           ELSE /\ Except("ParseError")
                /\ UNCHANGED tasks
    /\ UNCHANGED <<last_decision_log, running, gathered, submissions_table,
                   processing_results_table, batch_summary, xml_files>>
    /\ UNCHANGED <<validator_vars, loader_vars>>

\* Line 64: the await is over; the call has returned a result or raised.
AwaitProcess ==
    /\ position.pc = "process"
    /\ Finished(tasks[Len(tasks)])
    /\ IF tasks[Len(tasks)].pc = "raised"
       THEN Except(tasks[Len(tasks)].error)
       ELSE /\ position' = [position EXCEPT !.pc = "store_submission"]
            /\ UNCHANGED results
    /\ UNCHANGED <<stream_vars, submissions_table, processing_results_table,
                   batch_summary, xml_files>>
    /\ UNCHANGED <<validator_vars, loader_vars>>

\* Line 67 and DuckDBWriter.store_submission: INSERT OR REPLACE of the
\* parsed submission, keyed by submission_id.
StoreSubmission ==
    /\ position.pc = "store_submission"
    /\ LET file == xml_files[position.file]
       IN  \/ /\ submissions_table' =
                    [id \in DOMAIN submissions_table \cup {file.submission_id} |->
                        IF id = file.submission_id THEN file.record
                        ELSE submissions_table[id]]
              /\ position' = [position EXCEPT !.pc = "store_result"]
              /\ UNCHANGED results
           \/ /\ Except("IOException")
              /\ UNCHANGED submissions_table
    /\ UNCHANGED <<stream_vars, processing_results_table, batch_summary, xml_files>>
    /\ UNCHANGED <<validator_vars, loader_vars>>

\* Lines 68-83 and DuckDBWriter.store_processing_result: INSERT of the
\* result, then the entry of results.
StoreProcessingResult ==
    /\ position.pc = "store_result"
    /\ LET file == xml_files[position.file]
           processing_result == tasks[Len(tasks)].result
       IN  \/ /\ processing_results_table' =
                    Append(processing_results_table, processing_result)
              /\ results' = Append(results, SuccessEntry(file, processing_result))
              /\ position' = [file |-> position.file + 1, pc |-> "parse"]
           \/ /\ Except("IOException")
              /\ UNCHANGED processing_results_table
    /\ UNCHANGED <<stream_vars, submissions_table, batch_summary, xml_files>>
    /\ UNCHANGED <<validator_vars, loader_vars>>

\* Lines 92-104: the loop is over and the summary is returned.
ReturnSummary ==
    /\ position.pc = "parse"
    /\ position.file > Len(xml_files)
    /\ batch_summary' = BatchSummary(xml_files, results)
    /\ position' = [position EXCEPT !.pc = "returned"]
    /\ UNCHANGED <<stream_vars, results, submissions_table,
                   processing_results_table, xml_files>>
    /\ UNCHANGED <<validator_vars, loader_vars>>

NextBatch ==
    \/ ParseXml
    \/ NextStream
    \/ AwaitProcess
    \/ StoreSubmission
    \/ StoreProcessingResult
    \/ ReturnSummary

BatchSpec == InitBatch /\ [][NextBatch]_vars

\* C23: process_all_files visits every file: results has exactly one entry
\* per file, a success or an error, in the order of the files, and
\* successful + failed equals total_files; an exception raised for a file
\* does not keep the later files from being handled.
C23_OneEntryPerFile ==
    /\ Len(results) <= Len(xml_files)
    /\ \A k \in 1..Len(results) : results[k].file = xml_files[k].name
    /\ position.pc = "returned" =>
        /\ Len(batch_summary.results) = Len(xml_files)
        /\ batch_summary.total_files = Len(xml_files)
        /\ batch_summary.successful + batch_summary.failed
                = batch_summary.total_files

\* The run has returned a summary in which a file that failed is followed
\* by a file that succeeded.
C23_Witness ==
    /\ position.pc = "returned"
    /\ \E k \in 1..(Len(results) - 1) :
        /\ IsError(batch_summary.results[k])
        /\ ~IsError(batch_summary.results[k + 1])

\* C24: after process_all_files on an empty database the submissions table
\* and the processing_results table each hold summary['successful'] rows,
\* whatever failed on the way.
C24_RowsEqualSuccessful ==
    position.pc = "returned" =>
        /\ Cardinality(DOMAIN submissions_table) = batch_summary.successful
        /\ Len(processing_results_table) = batch_summary.successful

====
